---- MODULE Spec2Model ----
(***************************************************************************)
(* Verification model of the body-scan reconstruction core:                *)
(*   - MultiView3D::triangulate           (multi_view_3d.cpp)              *)
(*   - createGLBManually and its helpers  (mesh_generator.cpp)             *)
(*   - MeshGenerator::createFromKeypoints (mesh_generator.cpp)             *)
(*                                                                         *)
(* Numbers.  A C++ float is modelled in fixed point: the integer v stands  *)
(* for the real v / FP.  The scale factor of the triangulator is kept as   *)
(* an exact fraction [num, den] in lowest terms, and a triangulated point  *)
(* as three numerators over one positive denominator d.                    *)
(***************************************************************************)
EXTENDS Integers, Sequences, FiniteSets, TLC

VARIABLES
    scaleFactor,    \* static float scaleFactor   (multi_view_3d.cpp:125)
    scaleComputed,  \* static bool  scaleComputed (multi_view_3d.cpp:126)
    triDone,        \* a triangulate call has returned
    triIn,          \* arguments of the last triangulate call
    triOut,         \* its return value (kpts3d)
    glbPc,          \* createGLBManually: "idle", "call" (entered), "done" (returned)
    glbIn,          \* its arguments [vertices, normals, indices]
    glbOut,         \* its return value (bytes)
    meshPc,         \* createFromKeypoints: "idle", "call", "build", "finish",
                    \*   "encode", "done"
    kpts3d,         \* its argument
    segment,        \* the body segment block reached (1..12; 13 = all done)
    allBuffers,     \* allVertices, allNormals, allIndices, indexOffset
    maxSize,        \* largest extent of the generated geometry (line 727)
    scale,          \* unit-scale factor (line 753)
    placeholder,    \* the placeholder branch (line 754) was taken
    meshOut,        \* its return value (bytes)
    meshLog,        \* earlier calls of createFromKeypoints: [in, out] records
    m2dPc,          \* computeMeasurementsFrom2D: "idle", "call", "done"
    m2dIn,          \* its arguments [kpts2d, userHeight, imgWidth, imgHeight, mask]
    m2dOut,         \* its return value (8 measurements)
    m2dScan,        \* the thigh scans it made: edges found and mask pixels read
    circPc,         \* computeCircumferences: "idle", "call", "done"
    circIn,         \* its argument kpts3d and the behaviour of cv::fitEllipse
    circOut,        \* its return value (7 circumferences)
    circFits,       \* the slots for which cv::fitEllipse was called
    ellArgs,        \* calculateEllipseCircumference: the arguments <<a, b>>
    ellLog,         \* its calls so far: [a, b, result]
    p3Pc,           \* processThreeImages: "idle", "call", "done"
    p3In,           \* its arguments and what the libraries it calls do
    p3Out,          \* the ScanResult it returns (or a null reference)
    g_jvm,          \* a JavaVM is stored (mediapipe_pose_detector.cpp:123)
    jniInitialized, \* MediaPipePoseDetector::jniInitialized
    helperReady,    \* what the Java helper's isReady() answers
    lastDetectionResult, \* image whose detection result is stored (0: nullptr)
    peCall,         \* the last PoseEstimator::detect call: state met, result
    threeViews,     \* the last detection loop of processThreeImages and its mask
    detCalls,       \* number of detector operations so far
    thrPc,          \* concurrent triangulate calls: where each thread is
    thrArgs,        \* each thread's arguments [kpts2d, userHeight]
    thrI,           \* each thread's loop index i
    thrApplied,     \* the scaleFactor each thread read for each point it pushed
    epPc,           \* a JNI entry point taking an image: "idle", "call", "done"
    epIn,           \* its arguments [entry, null, width, height, len] and expectedSize
    epOut           \* whether it built the RGBA cv::Mat over the byte array

triVars == <<scaleFactor, scaleComputed, triDone, triIn, triOut>>
glbVars == <<glbPc, glbIn, glbOut>>
meshVars == <<meshPc, kpts3d, segment, allBuffers, maxSize, scale, placeholder, meshOut, meshLog>>

m2dVars == <<m2dPc, m2dIn, m2dOut, m2dScan>>

circVars == <<circPc, circIn, circOut, circFits>>

ellVars == <<ellArgs, ellLog>>

p3Vars == <<p3Pc, p3In, p3Out>>

detVars == <<g_jvm, jniInitialized, helperReady, lastDetectionResult, peCall,
            threeViews, detCalls>>

thrVars == <<thrPc, thrArgs, thrI, thrApplied>>

epVars == <<epPc, epIn, epOut>>

vars == <<triVars, glbVars, meshVars, m2dVars, circVars, ellVars, p3Vars, detVars, thrVars, epVars>>

\* what each component leaves alone
notTri == <<glbVars, meshVars, m2dVars, circVars, ellVars, p3Vars, detVars, thrVars, epVars>>
notGlb == <<triVars, meshVars, m2dVars, circVars, ellVars, p3Vars, detVars, thrVars, epVars>>
notMesh == <<triVars, glbVars, m2dVars, circVars, ellVars, p3Vars, detVars, thrVars, epVars>>
notM2d == <<triVars, glbVars, meshVars, circVars, ellVars, p3Vars, detVars, thrVars, epVars>>
notDet == <<triVars, glbVars, meshVars, m2dVars, circVars, ellVars, p3Vars, thrVars, epVars>>
notP3 == <<triVars, glbVars, meshVars, m2dVars, circVars, ellVars, detVars, thrVars, epVars>>
notEll == <<triVars, glbVars, meshVars, m2dVars, circVars, p3Vars, detVars, thrVars, epVars>>
notCirc == <<triVars, glbVars, meshVars, m2dVars, ellVars, p3Vars, detVars, thrVars, epVars>>
notThr == <<triVars, glbVars, meshVars, m2dVars, circVars, ellVars, p3Vars, detVars, epVars>>
notEp == <<triVars, glbVars, meshVars, m2dVars, circVars, ellVars, p3Vars, detVars, thrVars>>

----------------------------------------------------------------------------
(* Fixed point and fractions                                               *)

FP == 1000

Abs(a) == IF a < 0 THEN -a ELSE a

RECURSIVE GCD(_, _)
GCD(a, b) == IF b = 0 THEN a ELSE GCD(b, a % b)

\* the fraction n/d (d # 0) in lowest terms with a positive denominator
Rat(n, d) ==
    LET g == GCD(Abs(n), Abs(d))
        s == IF d < 0 THEN -1 ELSE 1
    IN  [num |-> s * (n \div g), den |-> s * (d \div g)]

SetMin(S) == CHOOSE m \in S : \A x \in S : m <= x
SetMax(S) == CHOOSE m \in S : \A x \in S : m >= x
MinOf(a, b) == IF a < b THEN a ELSE b
MaxOf(a, b) == IF a > b THEN a ELSE b

----------------------------------------------------------------------------
(* MultiView3D::triangulate                                                *)

numKeypoints == 135
SampleCount == 50
HeightPerUnitY == 200

Zero3 == [x |-> 0, y |-> 0, z |-> 0, d |-> 1]

\* (mutant) the size test accepts any call with at least three views
ViewCountOk_AtLeast3(kpts2d) == Len(kpts2d) >= 3

\* kpts2d.size() != 3 is the rejected input
ViewCountOk(kpts2d) == Len(kpts2d) = 3

\* (mutant) only the front view's length is tested
PresentInAllViews_FrontOnly(kpts2d, i) == i < Len(kpts2d[1])

\* the inner loop over the three views: index i (0-based) exists in each
PresentInAllViews(kpts2d, i) == \A view \in 1..3 : i < Len(kpts2d[view])

\* the y of the first min(50, size) points of view 0 with 0 < y < 1
SampledYs(kpts2d) ==
    { kpts2d[1][j + 1].y : j \in { k \in 0..(MinOf(SampleCount, Len(kpts2d[1])) - 1) :
                                      /\ kpts2d[1][k + 1].y > 0
                                      /\ kpts2d[1][k + 1].y < FP } }

\* maxY > minY after the sampling loop (minY, maxY keep their sentinels when
\* no point was sampled, and then maxY < minY)
YExtent(kpts2d) ==
    IF SampledYs(kpts2d) = {} THEN 0
    ELSE SetMax(SampledYs(kpts2d)) - SetMin(SampledYs(kpts2d))

\* userHeight / (|maxY - minY| * 200)
HeightScale(kpts2d, userHeight) ==
    Rat(userHeight * FP, YExtent(kpts2d) * HeightPerUnitY)

\* the guard of the block that computes the cached factor
MustComputeScale(computed, userHeight) == ~computed /\ userHeight > 0

\* the static factor after the block ran once in a call
ScaleAfter(kpts2d, userHeight, sf, computed) ==
    IF MustComputeScale(computed, userHeight) /\ YExtent(kpts2d) > 0
         /\ YExtent(kpts2d) * HeightPerUnitY > 0
    THEN HeightScale(kpts2d, userHeight)
    ELSE sf

ComputedAfter(userHeight, computed) ==
    computed \/ MustComputeScale(computed, userHeight)

\* homogeneous result h of cv::triangulatePoints, dehomogenised (zero point
\* when the 4th component is 0), scaled by sf, Y flipped
ScaledPoint(h, sf) ==
    IF h.w # 0
    THEN LET s == IF h.w * sf.den < 0 THEN -1 ELSE 1
         IN  [x |-> s * h.x * sf.num, y |-> -(s * h.y * sf.num),
              z |-> s * h.z * sf.num, d |-> s * h.w * sf.den]
    ELSE Zero3

\* the block runs in the first loop iteration whose index is in all views
ReachesScaleBlock(kpts2d) ==
    \E i \in 0..(numKeypoints - 1) : PresentInAllViews(kpts2d, i)

\* the loop's pushes once the factor of this call is known (the factor is
\* fixed from the first iteration that reaches the block on)
Kpts3dWith(kpts2d, tri, sf) ==
    [i \in 1..numKeypoints |->
        IF PresentInAllViews(kpts2d, i - 1) THEN ScaledPoint(tri[i], sf) ELSE Zero3]

\* return value and the static state left behind; tri[i] is the 4-vector
\* cv::triangulatePoints yields for keypoint i
triangulate(kpts2d, userHeight, tri, sf, computed) ==
    IF ~ViewCountOk(kpts2d)
    THEN [kpts3d |-> [i \in 1..numKeypoints |-> Zero3],
          scaleFactor |-> sf, scaleComputed |-> computed]
    ELSE IF ReachesScaleBlock(kpts2d)
    THEN [kpts3d |-> Kpts3dWith(kpts2d, tri, ScaleAfter(kpts2d, userHeight, sf, computed)),
          scaleFactor |-> ScaleAfter(kpts2d, userHeight, sf, computed),
          scaleComputed |-> ComputedAfter(userHeight, computed)]
    ELSE [kpts3d |-> Kpts3dWith(kpts2d, tri, sf),
          scaleFactor |-> sf, scaleComputed |-> computed]

----------------------------------------------------------------------------
(* createGLBManually: bytes are integers 0..255, text is its byte codes    *)

\* writeUint32LE: the four bytes of a 32-bit value, least significant first
\* (\div rounds down, so a negative value yields its two's complement)
Bytes32LE(value) ==
    << value % 256, (value \div 256) % 256,
       (value \div 65536) % 256, (value \div 16777216) % 256 >>

\* the 4-byte image memcpy copies for a float: the 32-bit pattern of the
\* fixed-point value
FloatBytes(v) == Bytes32LE(v)

\* operator<< of an unsigned integer: its decimal digits
RECURSIVE DecDigits(_)
DecDigits(n) ==
    IF n < 10 THEN <<48 + n>> ELSE DecDigits(n \div 10) \o <<48 + (n % 10)>>

\* operator<< of a float under std::fixed and setprecision(6)
FixedDigits(v) ==
    (IF v < 0 THEN <<45>> ELSE <<>>)
    \o DecDigits(Abs(v) \div FP)
    \o <<46, 48 + ((Abs(v) % FP) \div 100), 48 + (((Abs(v) % FP) \div 10) % 10),
         48 + (Abs(v) % 10), 48, 48, 48>>

\* "{\n  \"asset\": {\"version\": \"2.0\"},\n  \"scene\": 0,\n  \"scenes\": [{\"nodes\": [0]}],\n  \"nodes\": [{\"mesh\": 0, \"name\": \"BodyMesh\"}],\n  \"meshes\": [{\n    \"primitives\": [{\n      \"attributes\": {\"POSITION\": 0, \"NORMAL\": 1},\n      \"indices\": 2,\n      \"material\": 0\n    }]\n  }],\n  \"materials\": [{\n    \"pbrMetallicRoughness\": {\n      \"baseColorFactor\": [0.8, 0.8, 0.8, 1.0],\n      \"metallicFactor\": 0.0,\n      \"roughnessFactor\": 0.5\n    },\n    \"doubleSided\": true\n  }],\n  \"buffers\": [{\"byteLength\": "
JsonHead ==
    << 123, 10, 32, 32, 34, 97, 115, 115, 101, 116, 34, 58, 32, 123, 34, 118,
      101, 114, 115, 105, 111, 110, 34, 58, 32, 34, 50, 46, 48, 34, 125, 44,
      10, 32, 32, 34, 115, 99, 101, 110, 101, 34, 58, 32, 48, 44, 10, 32, 32,
      34, 115, 99, 101, 110, 101, 115, 34, 58, 32, 91, 123, 34, 110, 111, 100,
      101, 115, 34, 58, 32, 91, 48, 93, 125, 93, 44, 10, 32, 32, 34, 110, 111,
      100, 101, 115, 34, 58, 32, 91, 123, 34, 109, 101, 115, 104, 34, 58, 32,
      48, 44, 32, 34, 110, 97, 109, 101, 34, 58, 32, 34, 66, 111, 100, 121,
      77, 101, 115, 104, 34, 125, 93, 44, 10, 32, 32, 34, 109, 101, 115, 104,
      101, 115, 34, 58, 32, 91, 123, 10, 32, 32, 32, 32, 34, 112, 114, 105,
      109, 105, 116, 105, 118, 101, 115, 34, 58, 32, 91, 123, 10, 32, 32, 32,
      32, 32, 32, 34, 97, 116, 116, 114, 105, 98, 117, 116, 101, 115, 34, 58,
      32, 123, 34, 80, 79, 83, 73, 84, 73, 79, 78, 34, 58, 32, 48, 44, 32, 34,
      78, 79, 82, 77, 65, 76, 34, 58, 32, 49, 125, 44, 10, 32, 32, 32, 32, 32,
      32, 34, 105, 110, 100, 105, 99, 101, 115, 34, 58, 32, 50, 44, 10, 32,
      32, 32, 32, 32, 32, 34, 109, 97, 116, 101, 114, 105, 97, 108, 34, 58,
      32, 48, 10, 32, 32, 32, 32, 125, 93, 10, 32, 32, 125, 93, 44, 10, 32,
      32, 34, 109, 97, 116, 101, 114, 105, 97, 108, 115, 34, 58, 32, 91, 123,
      10, 32, 32, 32, 32, 34, 112, 98, 114, 77, 101, 116, 97, 108, 108, 105,
      99, 82, 111, 117, 103, 104, 110, 101, 115, 115, 34, 58, 32, 123, 10, 32,
      32, 32, 32, 32, 32, 34, 98, 97, 115, 101, 67, 111, 108, 111, 114, 70,
      97, 99, 116, 111, 114, 34, 58, 32, 91, 48, 46, 56, 44, 32, 48, 46, 56,
      44, 32, 48, 46, 56, 44, 32, 49, 46, 48, 93, 44, 10, 32, 32, 32, 32, 32,
      32, 34, 109, 101, 116, 97, 108, 108, 105, 99, 70, 97, 99, 116, 111, 114,
      34, 58, 32, 48, 46, 48, 44, 10, 32, 32, 32, 32, 32, 32, 34, 114, 111,
      117, 103, 104, 110, 101, 115, 115, 70, 97, 99, 116, 111, 114, 34, 58,
      32, 48, 46, 53, 10, 32, 32, 32, 32, 125, 44, 10, 32, 32, 32, 32, 34,
      100, 111, 117, 98, 108, 101, 83, 105, 100, 101, 100, 34, 58, 32, 116,
      114, 117, 101, 10, 32, 32, 125, 93, 44, 10, 32, 32, 34, 98, 117, 102,
      102, 101, 114, 115, 34, 58, 32, 91, 123, 34, 98, 121, 116, 101, 76, 101,
      110, 103, 116, 104, 34, 58, 32 >>

\* "}],\n  \"bufferViews\": [\n    {\"buffer\": 0, \"byteOffset\": 0, \"byteLength\": "
JsonView0Length ==
    << 125, 93, 44, 10, 32, 32, 34, 98, 117, 102, 102, 101, 114, 86, 105, 101,
      119, 115, 34, 58, 32, 91, 10, 32, 32, 32, 32, 123, 34, 98, 117, 102,
      102, 101, 114, 34, 58, 32, 48, 44, 32, 34, 98, 121, 116, 101, 79, 102,
      102, 115, 101, 116, 34, 58, 32, 48, 44, 32, 34, 98, 121, 116, 101, 76,
      101, 110, 103, 116, 104, 34, 58, 32 >>

\* ", \"target\": 34962},\n    {\"buffer\": 0, \"byteOffset\": "
JsonView1Offset ==
    << 44, 32, 34, 116, 97, 114, 103, 101, 116, 34, 58, 32, 51, 52, 57, 54,
      50, 125, 44, 10, 32, 32, 32, 32, 123, 34, 98, 117, 102, 102, 101, 114,
      34, 58, 32, 48, 44, 32, 34, 98, 121, 116, 101, 79, 102, 102, 115, 101,
      116, 34, 58, 32 >>

\* ", \"byteLength\": "
JsonView1Length ==
    << 44, 32, 34, 98, 121, 116, 101, 76, 101, 110, 103, 116, 104, 34, 58, 32 >>

\* ", \"target\": 34962},\n    {\"buffer\": 0, \"byteOffset\": "
JsonView2Offset ==
    << 44, 32, 34, 116, 97, 114, 103, 101, 116, 34, 58, 32, 51, 52, 57, 54,
      50, 125, 44, 10, 32, 32, 32, 32, 123, 34, 98, 117, 102, 102, 101, 114,
      34, 58, 32, 48, 44, 32, 34, 98, 121, 116, 101, 79, 102, 102, 115, 101,
      116, 34, 58, 32 >>

\* ", \"byteLength\": "
JsonView2Length ==
    << 44, 32, 34, 98, 121, 116, 101, 76, 101, 110, 103, 116, 104, 34, 58, 32 >>

\* ", \"target\": 34963}\n  ],\n  \"accessors\": [\n    {\"bufferView\": 0, \"byteOffset\": 0, \"componentType\": 5126, \"count\": "
JsonAcc0Count ==
    << 44, 32, 34, 116, 97, 114, 103, 101, 116, 34, 58, 32, 51, 52, 57, 54,
      51, 125, 10, 32, 32, 93, 44, 10, 32, 32, 34, 97, 99, 99, 101, 115, 115,
      111, 114, 115, 34, 58, 32, 91, 10, 32, 32, 32, 32, 123, 34, 98, 117,
      102, 102, 101, 114, 86, 105, 101, 119, 34, 58, 32, 48, 44, 32, 34, 98,
      121, 116, 101, 79, 102, 102, 115, 101, 116, 34, 58, 32, 48, 44, 32, 34,
      99, 111, 109, 112, 111, 110, 101, 110, 116, 84, 121, 112, 101, 34, 58,
      32, 53, 49, 50, 54, 44, 32, 34, 99, 111, 117, 110, 116, 34, 58, 32 >>

\* ", \"type\": \"VEC3\", \"min\": ["
JsonAcc0Min ==
    << 44, 32, 34, 116, 121, 112, 101, 34, 58, 32, 34, 86, 69, 67, 51, 34, 44,
      32, 34, 109, 105, 110, 34, 58, 32, 91 >>

\* "], \"max\": ["
JsonAcc0Max ==
    << 93, 44, 32, 34, 109, 97, 120, 34, 58, 32, 91 >>

\* "]},\n    {\"bufferView\": 1, \"byteOffset\": 0, \"componentType\": 5126, \"count\": "
JsonAcc1Count ==
    << 93, 125, 44, 10, 32, 32, 32, 32, 123, 34, 98, 117, 102, 102, 101, 114,
      86, 105, 101, 119, 34, 58, 32, 49, 44, 32, 34, 98, 121, 116, 101, 79,
      102, 102, 115, 101, 116, 34, 58, 32, 48, 44, 32, 34, 99, 111, 109, 112,
      111, 110, 101, 110, 116, 84, 121, 112, 101, 34, 58, 32, 53, 49, 50, 54,
      44, 32, 34, 99, 111, 117, 110, 116, 34, 58, 32 >>

\* ", \"type\": \"VEC3\"},\n    {\"bufferView\": 2, \"byteOffset\": 0, \"componentType\": 5125, \"count\": "
JsonAcc2Count ==
    << 44, 32, 34, 116, 121, 112, 101, 34, 58, 32, 34, 86, 69, 67, 51, 34,
      125, 44, 10, 32, 32, 32, 32, 123, 34, 98, 117, 102, 102, 101, 114, 86,
      105, 101, 119, 34, 58, 32, 50, 44, 32, 34, 98, 121, 116, 101, 79, 102,
      102, 115, 101, 116, 34, 58, 32, 48, 44, 32, 34, 99, 111, 109, 112, 111,
      110, 101, 110, 116, 84, 121, 112, 101, 34, 58, 32, 53, 49, 50, 53, 44,
      32, 34, 99, 111, 117, 110, 116, 34, 58, 32 >>

\* ", \"type\": \"SCALAR\"}\n  ]\n}\n"
JsonTail ==
    << 44, 32, 34, 116, 121, 112, 101, 34, 58, 32, 34, 83, 67, 65, 76, 65, 82,
      34, 125, 10, 32, 32, 93, 10, 125, 10 >>

\* (mutant) the early return only tests the vertex list
IsEmptyInput_VerticesOnly(vertices, indices) == vertices = <<>>

\* vertices.empty() || indices.empty()
IsEmptyInput(vertices, indices) == vertices = <<>> \/ indices = <<>>

\* (mutant) the count is the number of floats, not of vertices
VertexCount_Floats(vertices) == Len(vertices)

VertexCount(vertices) == Len(vertices) \div 3
NormalCount(normals) == Len(normals) \div 3
IndexCount(indices) == Len(indices)

\* the bounding-box loop over whole vertices: axis 1, 2, 3 = x, y, z
AxisValues(vertices, axis) ==
    { vertices[3 * k + axis] : k \in 0..(Len(vertices) \div 3 - 1) }
BoxMin(vertices, axis) == SetMin(AxisValues(vertices, axis) \cup {vertices[axis]})
BoxMax(vertices, axis) == SetMax(AxisValues(vertices, axis) \cup {vertices[axis]})

\* (mutant) the buffer is sized for 16-bit indices
BinarySize_ShortIndices(vertices, normals, indices) ==
    Len(vertices) * 4 + Len(normals) * 4 + Len(indices) * 2

\* binaryBuffer.resize(...): sizeof(float) = sizeof(uint32_t) = 4
BinarySize(vertices, normals, indices) ==
    Len(vertices) * 4 + Len(normals) * 4 + Len(indices) * 4

\* the three memcpy calls: word w (0-based) of the payload
PayloadWord(vertices, normals, indices, w) ==
    IF w < Len(vertices) THEN FloatBytes(vertices[w + 1])
    ELSE IF w < Len(vertices) + Len(normals) THEN FloatBytes(normals[w - Len(vertices) + 1])
    ELSE Bytes32LE(indices[w - Len(vertices) - Len(normals) + 1])

BinaryBuffer(vertices, normals, indices) ==
    [b \in 1..BinarySize(vertices, normals, indices) |->
        PayloadWord(vertices, normals, indices, (b - 1) \div 4)[((b - 1) % 4) + 1]]

\* the text written to jsonStream
JsonString(vertices, normals, indices) ==
    JsonHead \o DecDigits(BinarySize(vertices, normals, indices))
    \o JsonView0Length \o DecDigits(Len(vertices) * 4)
    \o JsonView1Offset \o DecDigits(Len(vertices) * 4)
    \o JsonView1Length \o DecDigits(Len(normals) * 4)
    \o JsonView2Offset \o DecDigits(Len(vertices) * 4 + Len(normals) * 4)
    \o JsonView2Length \o DecDigits(Len(indices) * 4)
    \o JsonAcc0Count \o DecDigits(VertexCount(vertices))
    \o JsonAcc0Min \o FixedDigits(BoxMin(vertices, 1)) \o <<44>>
    \o FixedDigits(BoxMin(vertices, 2)) \o <<44>> \o FixedDigits(BoxMin(vertices, 3))
    \o JsonAcc0Max \o FixedDigits(BoxMax(vertices, 1)) \o <<44>>
    \o FixedDigits(BoxMax(vertices, 2)) \o <<44>> \o FixedDigits(BoxMax(vertices, 3))
    \o JsonAcc1Count \o DecDigits(NormalCount(normals))
    \o JsonAcc2Count \o DecDigits(IndexCount(indices))
    \o JsonTail

\* (mutant) a full word of padding is added to an aligned size
PaddingFor_AlwaysPads(size) == 4 - (size % 4)

\* (4 - (size % 4)) % 4
PaddingFor(size) == (4 - (size % 4)) % 4

\* jsonString.append(jsonPadding, ' ') and binaryBuffer.insert(end, binaryPadding, 0)
PadWith(data, fill) == data \o [k \in 1..PaddingFor(Len(data)) |-> fill]

\* (mutant) the chunk length counts 12 header bytes as well
JsonLengthField_WithHeader(jsonString) == 12 + Len(jsonString)

\* writeUint32LE(glb, jsonString.size())
JsonLengthField(jsonString) == Len(jsonString)

\* the vector glb before the total length is patched in
GlbUnpatched(jsonString, binaryBuffer) ==
    <<103, 108, 84, 70>> \o Bytes32LE(2) \o Bytes32LE(0)
    \o Bytes32LE(JsonLengthField(jsonString)) \o <<74, 83, 79, 78>> \o jsonString
    \o Bytes32LE(Len(binaryBuffer)) \o <<66, 73, 78, 0>> \o binaryBuffer

\* memcpy(glb.data() + totalLengthPos, &totalLength, 4) on a little-endian target
PatchTotalLength(glb) ==
    [b \in 1..Len(glb) |-> IF b \in 9..12 THEN Bytes32LE(Len(glb))[b - 8] ELSE glb[b]]

createGLBManually(vertices, normals, indices) ==
    IF IsEmptyInput(vertices, indices) THEN <<>>
    ELSE PatchTotalLength(
            GlbUnpatched(PadWith(JsonString(vertices, normals, indices), 32),
                         PadWith(BinaryBuffer(vertices, normals, indices), 0)))

----------------------------------------------------------------------------
(* Float arithmetic of the mesh builder in fixed point                     *)

\* n / d rounded to the nearest integer, halves away from zero (d > 0)
RoundDiv(n, d) ==
    IF n >= 0 THEN (2 * n + d) \div (2 * d) ELSE -((2 * (-n) + d) \div (2 * d))

\* the float product and quotient of two fixed-point values
Mul(a, b) == RoundDiv(a * b, FP)
Div(a, b) == IF b > 0 THEN RoundDiv(a * FP, b) ELSE -RoundDiv(a * FP, -b)

\* floor of the square root, by bisection on [lo, hi]
RECURSIVE SqrtBetween(_, _, _)
SqrtBetween(n, lo, hi) ==
    IF lo >= hi THEN lo
    ELSE LET mid == (lo + hi + 1) \div 2
         IN  IF mid * mid <= n THEN SqrtBetween(n, mid, hi) ELSE SqrtBetween(n, lo, mid - 1)

ISqrt(n) == SqrtBetween(n, 0, 46340)

\* std::sqrt(dx*dx + dy*dy + dz*dz) of fixed-point components: the operands
\* are scaled down by k while their squares would leave the integer range
\* (a float keeps 24 significant bits in the same way)
Norm3(dx, dy, dz) ==
    LET m == MaxOf(Abs(dx), MaxOf(Abs(dy), Abs(dz)))
        k == (m \div 26000) + 1
    IN  k * ISqrt((dx \div k) * (dx \div k) + (dy \div k) * (dy \div k)
                  + (dz \div k) * (dz \div k))

Pt(x, y, z) == [x |-> x, y |-> y, z |-> z]

distance3D(a, b) == Norm3(a.x - b.x, a.y - b.y, a.z - b.z)

\* cos and sin of k * pi / 8 (theta = pi*i/rings, phi = 2*pi*j/sectors with
\* 16 segments), in units of 1/FP
CosTable ==
    << 1000, 924, 707, 383, 0, -383, -707, -924, -1000,
       -924, -707, -383, 0, 383, 707, 924, 1000 >>
Cos16(k) == CosTable[k + 1]
Sin16(k) == CosTable[((k + 12) % 16) + 1]

\* values standing for a NaN and an infinite coordinate
NaN == 2000000001
Inf == 2000000000

isnan(v) == v = NaN
isinf(v) == v = Inf \/ v = -Inf

----------------------------------------------------------------------------
(* Mesh builder: validity, ellipsoids, cylinders                           *)

Origin == Pt(0, 0, 0)

\* (mutant) the all-zero test is dropped
isValidKeypoint_NoZeroTest(pt) ==
    ~(isnan(pt.x) \/ isnan(pt.y) \/ isnan(pt.z) \/ isinf(pt.x) \/ isinf(pt.y) \/ isinf(pt.z))

isValidKeypoint(pt) ==
    ~(isnan(pt.x) \/ isnan(pt.y) \/ isnan(pt.z)
      \/ isinf(pt.x) \/ isinf(pt.y) \/ isinf(pt.z)
      \/ (pt.x = 0 /\ pt.y = 0 /\ pt.z = 0))

Segments == 16
Rings == Segments \div 2
EllipsoidVertexCount == (Rings + 1) * (Segments + 1)
CylinderVertexCount == (Segments + 1) * 2

\* the buffers a generator appends to, with the running index offset
EmptyBuffers == [vertices |-> <<>>, normals |-> <<>>, indices |-> <<>>, indexOffset |-> 0]

\* vertex (ring i, sector j) of an ellipsoid
EllipsoidVertex(center, radiusX, radiusY, radiusZ, i, j) ==
    Pt(center.x + Mul(Mul(radiusX, Sin16(i)), Cos16(j)),
       center.y + Mul(radiusY, Cos16(i)),
       center.z + Mul(Mul(radiusZ, Sin16(i)), Sin16(j)))

\* its normal: the unit direction, divided by its norm when that is > 0.0001
EllipsoidNormalRaw(i, j) ==
    Pt(Mul(Sin16(i), Cos16(j)), Cos16(i), Mul(Sin16(i), Sin16(j)))

Normalised(n, norm) ==
    IF norm >= 1 THEN Pt(Div(n.x, norm), Div(n.y, norm), Div(n.z, norm)) ELSE n

EllipsoidNormal(i, j) ==
    Normalised(EllipsoidNormalRaw(i, j),
               Norm3(EllipsoidNormalRaw(i, j).x, EllipsoidNormalRaw(i, j).y,
                     EllipsoidNormalRaw(i, j).z))

Coord(pt, c) == IF c = 0 THEN pt.x ELSE IF c = 1 THEN pt.y ELSE pt.z

\* the six indices pushed for cell (i, j), m = 0..5
EllipsoidIndex(indexOffset, i, j, m) ==
    LET first == indexOffset + i * (Segments + 1) + j
        second == indexOffset + (i + 1) * (Segments + 1) + j
    IN  IF m = 0 THEN first
        ELSE IF m = 1 \/ m = 4 THEN second
        ELSE IF m = 2 \/ m = 3 THEN first + 1
        ELSE second + 1

generateEllipsoid(center, radiusX, radiusY, radiusZ, buf) ==
    [vertices |-> buf.vertices \o
        [q \in 1..(3 * EllipsoidVertexCount) |->
            Coord(EllipsoidVertex(center, radiusX, radiusY, radiusZ,
                                  ((q - 1) \div 3) \div (Segments + 1),
                                  ((q - 1) \div 3) % (Segments + 1)),
                  (q - 1) % 3)],
     normals |-> buf.normals \o
        [q \in 1..(3 * EllipsoidVertexCount) |->
            Coord(EllipsoidNormal(((q - 1) \div 3) \div (Segments + 1),
                                  ((q - 1) \div 3) % (Segments + 1)),
                  (q - 1) % 3)],
     indices |-> buf.indices \o
        [q \in 1..(6 * Rings * Segments) |->
            EllipsoidIndex(buf.indexOffset, ((q - 1) \div 6) \div Segments,
                           ((q - 1) \div 6) % Segments, (q - 1) % 6)],
     indexOffset |-> buf.indexOffset + EllipsoidVertexCount]

\* unit direction from start to end
Direction(start, end) ==
    Pt(Div(end.x - start.x, distance3D(start, end)),
       Div(end.y - start.y, distance3D(start, end)),
       Div(end.z - start.z, distance3D(start, end)))

Cross(a, b) ==
    Pt(Mul(a.y, b.z) - Mul(a.z, b.y), Mul(a.z, b.x) - Mul(a.x, b.z),
       Mul(a.x, b.y) - Mul(a.y, b.x))

\* divided by its length when that is > 0.001
UnitIfLong(v) ==
    IF Norm3(v.x, v.y, v.z) > 1
    THEN Pt(Div(v.x, Norm3(v.x, v.y, v.z)), Div(v.y, Norm3(v.x, v.y, v.z)),
            Div(v.z, Norm3(v.x, v.y, v.z)))
    ELSE v

RefVec(direction) == IF Abs(direction.x) < 900 THEN Pt(FP, 0, 0) ELSE Pt(0, FP, 0)

Perp1(direction) == UnitIfLong(Cross(RefVec(direction), direction))
Perp2(direction, perp1) == UnitIfLong(Cross(direction, perp1))

\* offset of ring vertex i from the axis
RingOffset(radius, perp1, perp2, i) ==
    Pt(Mul(radius, Mul(Cos16(i), perp1.x) + Mul(Sin16(i), perp2.x)),
       Mul(radius, Mul(Cos16(i), perp1.y) + Mul(Sin16(i), perp2.y)),
       Mul(radius, Mul(Cos16(i), perp1.z) + Mul(Sin16(i), perp2.z)))

RingNormal(offset, perp1) ==
    IF Norm3(offset.x, offset.y, offset.z) > 1
    THEN Pt(Div(offset.x, Norm3(offset.x, offset.y, offset.z)),
            Div(offset.y, Norm3(offset.x, offset.y, offset.z)),
            Div(offset.z, Norm3(offset.x, offset.y, offset.z)))
    ELSE perp1

\* (mutant) the second ring is indexed one whole cylinder further on
CylinderIndex_PastEnd(indexOffset, i, m) ==
    LET base0 == indexOffset + i
        base1 == indexOffset + (Segments + 1) * 2 + i
    IN  IF m = 0 THEN base0
        ELSE IF m = 1 \/ m = 4 THEN base1
        ELSE IF m = 2 \/ m = 3 THEN base0 + 1
        ELSE base1 + 1

\* the six indices pushed for side quad i, m = 0..5
CylinderIndex(indexOffset, i, m) ==
    LET base0 == indexOffset + i
        base1 == indexOffset + Segments + 1 + i
    IN  IF m = 0 THEN base0
        ELSE IF m = 1 \/ m = 4 THEN base1
        ELSE IF m = 2 \/ m = 3 THEN base0 + 1
        ELSE base1 + 1

\* the rings and the side strip, once the two perpendiculars are known
CylinderWith(start, end, radius, perp1, perp2, buf) ==
    [vertices |-> buf.vertices \o
        [q \in 1..(3 * CylinderVertexCount) |->
            LET v == (q - 1) \div 3
                base == IF v \div (Segments + 1) = 0 THEN start ELSE end
            IN  Coord(base, (q - 1) % 3)
                + Coord(RingOffset(radius, perp1, perp2, v % (Segments + 1)), (q - 1) % 3)],
     normals |-> buf.normals \o
        [q \in 1..(3 * CylinderVertexCount) |->
            Coord(RingNormal(RingOffset(radius, perp1, perp2,
                                        ((q - 1) \div 3) % (Segments + 1)), perp1),
                  (q - 1) % 3)],
     indices |-> buf.indices \o
        [q \in 1..(6 * Segments) |->
            CylinderIndex(buf.indexOffset, (q - 1) \div 6, (q - 1) % 6)],
     indexOffset |-> buf.indexOffset + CylinderVertexCount]

generateCylinderBetweenPoints(start, end, radius, buf) ==
    IF radius <= 0 THEN buf
    ELSE IF distance3D(start, end) < 1 THEN buf
    ELSE CylinderWith(start, end, radius,
                      Perp1(Direction(start, end)),
                      Perp2(Direction(start, end), Perp1(Direction(start, end))),
                      buf)

----------------------------------------------------------------------------
(* MeshGenerator::createFromKeypoints                                      *)

MinKeypoints == 15
MinValidKeypoints == 10
BODY_25_COUNT == 25

ValidKeypoints(k3) == Cardinality({ i \in 1..Len(k3) : isValidKeypoint(k3[i]) })

\* kpts3d.size() < 15, or fewer than 10 valid keypoints
Rejected(k3) == Len(k3) < MinKeypoints \/ ValidKeypoints(k3) < MinValidKeypoints

\* BODY_25 slot k (0-based): the keypoint if it is valid, else (0,0,0)
Anchor(k3, k) ==
    IF MinOf(Len(k3), BODY_25_COUNT) > k /\ isValidKeypoint(k3[k + 1])
    THEN k3[k + 1] ELSE Origin

nose(k3) == Anchor(k3, 0)
neck(k3) == Anchor(k3, 1)
rightShoulder(k3) == Anchor(k3, 2)
rightElbow(k3) == Anchor(k3, 3)
rightWrist(k3) == Anchor(k3, 4)
leftShoulder(k3) == Anchor(k3, 5)
leftElbow(k3) == Anchor(k3, 6)
leftWrist(k3) == Anchor(k3, 7)
midHip(k3) == Anchor(k3, 8)
rightHip(k3) == Anchor(k3, 9)
rightKnee(k3) == Anchor(k3, 10)
rightAnkle(k3) == Anchor(k3, 11)
leftHip(k3) == Anchor(k3, 12)
leftKnee(k3) == Anchor(k3, 13)
leftAnkle(k3) == Anchor(k3, 14)

BothValid(a, b) == isValidKeypoint(a) /\ isValidKeypoint(b)

\* torsoHeight / 45 when the torso is between 0.1 and 200 long, else 1
bodyScale(k3) ==
    IF BothValid(neck(k3), midHip(k3))
         /\ distance3D(neck(k3), midHip(k3)) > 100
         /\ distance3D(neck(k3), midHip(k3)) < 200000
    THEN Div(distance3D(neck(k3), midHip(k3)), 45000)
    ELSE FP

shoulderWidth(k3) ==
    IF BothValid(rightShoulder(k3), leftShoulder(k3))
    THEN distance3D(rightShoulder(k3), leftShoulder(k3)) ELSE 0

headRadius(k3) ==
    IF BothValid(rightShoulder(k3), leftShoulder(k3))
    THEN Mul(shoulderWidth(k3), 250) ELSE Mul(8000, bodyScale(k3))

\* torsoWidth as initialised (line 574), and as the torso block resets it
torsoWidth0(k3) == Mul(shoulderWidth(k3), 400)
torsoDepth(k3) == Mul(torsoWidth0(k3), 600)
torsoWidth(k3) ==
    IF BothValid(rightShoulder(k3), leftShoulder(k3))
    THEN Mul(distance3D(rightShoulder(k3), leftShoulder(k3)), 500)
    ELSE torsoWidth0(k3)

hipWidth(k3) ==
    IF BothValid(rightHip(k3), leftHip(k3))
    THEN distance3D(rightHip(k3), leftHip(k3)) ELSE Mul(torsoWidth0(k3), 900)

pelvisHeight(k3) ==
    IF BothValid(rightHip(k3), leftHip(k3))
    THEN Mul(distance3D(rightHip(k3), leftHip(k3)), 300) ELSE Mul(12000, bodyScale(k3))

Midpoint(a, b) == Pt(Mul(a.x + b.x, 500), Mul(a.y + b.y, 500), Mul(a.z + b.z, 500))

\* a limb: cylinder of radius fraction * length when both ends are valid
Limb(a, b, fraction, buf) ==
    IF BothValid(a, b)
    THEN generateCylinderBetweenPoints(a, b, Mul(distance3D(a, b), fraction), buf)
    ELSE buf

\* the twelve numbered blocks of lines 583-697
BuildSegment(n, k3, buf) ==
    CASE n = 1 ->
           IF isValidKeypoint(nose(k3))
           THEN generateEllipsoid(nose(k3), headRadius(k3), Mul(headRadius(k3), 1500),
                                  headRadius(k3), buf)
           ELSE buf
      [] n = 2 ->
           IF BothValid(neck(k3), nose(k3))
           THEN generateCylinderBetweenPoints(
                    Pt(neck(k3).x, neck(k3).y + Mul(headRadius(k3), 300), neck(k3).z),
                    neck(k3), Mul(headRadius(k3), 600), buf)
           ELSE buf
      [] n = 3 ->
           IF BothValid(neck(k3), midHip(k3))
           THEN generateEllipsoid(Midpoint(neck(k3), midHip(k3)),
                                  Mul(torsoWidth(k3), 500),
                                  Mul(distance3D(neck(k3), midHip(k3)), 500),
                                  Mul(torsoDepth(k3), 500), buf)
           ELSE buf
      [] n = 4 ->
           IF isValidKeypoint(midHip(k3))
           THEN generateEllipsoid(midHip(k3), Mul(hipWidth(k3), 500),
                                  Mul(pelvisHeight(k3), 500), Mul(hipWidth(k3), 400), buf)
           ELSE buf
      [] n = 5 -> Limb(rightHip(k3), rightKnee(k3), 120, buf)
      [] n = 6 -> Limb(leftHip(k3), leftKnee(k3), 120, buf)
      [] n = 7 -> Limb(rightKnee(k3), rightAnkle(k3), 100, buf)
      [] n = 8 -> Limb(leftKnee(k3), leftAnkle(k3), 100, buf)
      [] n = 9 -> Limb(rightShoulder(k3), rightElbow(k3), 100, buf)
      [] n = 10 -> Limb(leftShoulder(k3), leftElbow(k3), 100, buf)
      [] n = 11 -> Limb(rightElbow(k3), rightWrist(k3), 80, buf)
      [] n = 12 -> Limb(leftElbow(k3), leftWrist(k3), 80, buf)

SegmentCount == 12

\* maxSize = std::max({sizeX, sizeY, sizeZ}) of the bounding box
MaxSizeOf(vertices) ==
    MaxOf(BoxMax(vertices, 1) - BoxMin(vertices, 1),
          MaxOf(BoxMax(vertices, 2) - BoxMin(vertices, 2),
                BoxMax(vertices, 3) - BoxMin(vertices, 3)))

\* (minimum + maximum) * 0.5 on one axis
CenterOf(vertices, axis) == Mul(BoxMin(vertices, axis) + BoxMax(vertices, axis), 500)

\* maxSize < 0.001
IsDegenerate(size) == size < 1

\* head and torso ellipsoids of lines 769-772 on cleared buffers
PlaceholderBuffers ==
    generateEllipsoid(Pt(0, 600, 0), 250, 600, 200,
        generateEllipsoid(Pt(0, 1200, 0), 150, 150, 150, EmptyBuffers))

\* the size the placeholder branch assigns to maxSize (line 779)
PlaceholderSize == 1500

\* (mutant) the two limits are taken with their boundary values
ScaleFor_Inclusive(size) ==
    IF size >= 100000 THEN 10
    ELSE IF size <= 1000 THEN Div(1500, size)
    ELSE FP

\* the scale chosen for a non-degenerate maxSize (lines 781-790)
ScaleFor(size) ==
    IF size > 100000 THEN 10
    ELSE IF size < 1000 THEN Div(1500, size)
    ELSE FP

\* lines 793-797: every vertex minus the centre, times the scale
Recentred(vertices, cx, cy, cz, sc) ==
    [q \in 1..Len(vertices) |->
        Mul(vertices[q] - (IF (q - 1) % 3 = 0 THEN cx ELSE IF (q - 1) % 3 = 1 THEN cy ELSE cz),
            sc)]

----------------------------------------------------------------------------
(* computeMeasurementsFrom2D: coordinates in 1/FP, a result is a fraction  *)
(* num/den of a centimetre, 0/0 standing for a NaN                         *)

Pt2(x, y) == [x |-> x, y |-> y]

\* the 2D validity test of the bridge: both coordinates inside [0, 1]
\* (a NaN coordinate fails every comparison)
isValidKeypoint2D(pt) == pt.x >= 0 /\ pt.x <= FP /\ pt.y >= 0 /\ pt.y <= FP

\* std::sqrt to the nearest unit
RoundSqrt(n) == IF n - ISqrt(n) * ISqrt(n) > ISqrt(n) THEN ISqrt(n) + 1 ELSE ISqrt(n)

keypointDistance(p1, p2) ==
    RoundSqrt((p2.x - p1.x) * (p2.x - p1.x) + (p2.y - p1.y) * (p2.y - p1.y))

ZeroCm == [num |-> 0, den |-> 1]
NaNCm == [num |-> 0, den |-> 0]
Cm(n) == [num |-> n, den |-> 1]

\* float comparison: false as soon as one side is a NaN
LessCm(a, b) == a.den # 0 /\ b.den # 0 /\ a.num * b.den < b.num * a.den

\* (mutant) the NaN and infinity tests are dropped
validateMeasurement_RangeOnly(value, minVal, maxVal) ==
    IF LessCm(value, Cm(minVal)) \/ LessCm(Cm(maxVal), value) THEN ZeroCm ELSE value

validateMeasurement(value, minVal, maxVal) ==
    IF LessCm(value, Cm(minVal)) \/ LessCm(Cm(maxVal), value) \/ value.den = 0
    THEN ZeroCm
    ELSE value

\* keypoint of landmark slot s (0-based)
Kp(k2, s) == k2[s + 1]
ValidAt(k2, S) == \A s \in S : isValidKeypoint2D(Kp(k2, s))

\* (mutant) the upper limit of the reference height is not tested
RejectedInput_NoUpperLimit(in) ==
    \/ Len(in.kpts2d) < 33
    \/ (~isnan(in.userHeight) /\ in.userHeight <= 0)
    \/ in.imgWidth <= 0 \/ in.imgHeight <= 0

\* lines 440-443; a NaN height passes both height comparisons
RejectedInput(in) ==
    \/ Len(in.kpts2d) < 33
    \/ (~isnan(in.userHeight) /\ (in.userHeight <= 0 \/ in.userHeight > 300))
    \/ in.imgWidth <= 0 \/ in.imgHeight <= 0

hasHead(k2) == isValidKeypoint2D(Kp(k2, 0))
headY(k2) == IF hasHead(k2) THEN Kp(k2, 0).y ELSE FP

FootSlots == 27..32
hasFeet(k2) == \E s \in FootSlots : isValidKeypoint2D(Kp(k2, s))

\* (mutant) only the ankles are looked at
feetY_AnklesOnly(k2) ==
    SetMax({0} \cup {Kp(k2, s).y : s \in {s \in 27..28 : isValidKeypoint2D(Kp(k2, s))}})

\* lines 454-470: the largest valid foot Y, or without any valid foot point
\* the largest valid Y of all keypoints; never below the initial 0
feetY(k2) ==
    SetMax({0} \cup {Kp(k2, s).y :
        s \in {s \in (IF hasFeet(k2) THEN FootSlots ELSE 0..(Len(k2) - 1)) :
                  isValidKeypoint2D(Kp(k2, s))}})

bodyHeightNormalized(k2) == feetY(k2) - headY(k2)

\* lines 473-482: no measurement is made
NoBodyHeight(in) ==
    \/ bodyHeightNormalized(in.kpts2d) <= 0
    \/ ~hasHead(in.kpts2d)
    \/ bodyHeightNormalized(in.kpts2d) * in.imgHeight <= 0

\* n/(k*FP) normalized units over dim pixels, times cmPerPixel =
\* userHeight / (bodyHeightNormalized * imgHeight)
ToCm(n, k, dim, in) ==
    IF isnan(in.userHeight) THEN NaNCm
    ELSE Rat(n * dim * in.userHeight, k * bodyHeightNormalized(in.kpts2d) * in.imgHeight)

ShoulderWidth(in) ==
    IF ValidAt(in.kpts2d, {11, 12})
    THEN validateMeasurement(
             ToCm(keypointDistance(Kp(in.kpts2d, 11), Kp(in.kpts2d, 12)), 1, in.imgWidth, in),
             30, 60)
    ELSE ZeroCm

\* shoulder/hip -> elbow/knee -> wrist/ankle, one side
Chain(k2, a, b, c) == keypointDistance(Kp(k2, a), Kp(k2, b)) + keypointDistance(Kp(k2, b), Kp(k2, c))

ArmLength(in) ==
    IF ValidAt(in.kpts2d, {11, 13, 15, 12, 14, 16})
    THEN validateMeasurement(
             ToCm(Chain(in.kpts2d, 11, 13, 15) + Chain(in.kpts2d, 12, 14, 16), 2,
                  MaxOf(in.imgWidth, in.imgHeight), in),
             50, 80)
    ELSE ZeroCm

LegLength(in) ==
    IF ValidAt(in.kpts2d, {23, 25, 27, 24, 26, 28})
    THEN validateMeasurement(
             ToCm(Chain(in.kpts2d, 23, 25, 27) + Chain(in.kpts2d, 24, 26, 28), 2,
                  MaxOf(in.imgWidth, in.imgHeight), in),
             70, 120)
    ELSE ZeroCm

HipWidth(in) ==
    IF ValidAt(in.kpts2d, {23, 24})
    THEN validateMeasurement(
             ToCm(keypointDistance(Kp(in.kpts2d, 23), Kp(in.kpts2d, 24)), 1, in.imgWidth, in),
             25, 50)
    ELSE ZeroCm

\* lines 558-570: the smallest valid Y below 1.0, if there is one
HighestY(k2) ==
    SetMin({FP} \cup {Kp(k2, s).y : s \in {s \in 0..32 : isValidKeypoint2D(Kp(k2, s))}})

\* hip midpoint Y minus the highest Y, in halves
UpperBodyLength(in) ==
    IF ValidAt(in.kpts2d, {23, 24}) /\ HighestY(in.kpts2d) < FP
    THEN validateMeasurement(
             ToCm(Kp(in.kpts2d, 23).y + Kp(in.kpts2d, 24).y - 2 * HighestY(in.kpts2d), 2,
                  in.imgHeight, in),
             40, 80)
    ELSE ZeroCm

\* distance of the hip midpoint to the ankle midpoint, in halves
LowerBodyLength(in) ==
    IF ValidAt(in.kpts2d, {23, 24, 27, 28})
    THEN validateMeasurement(
             ToCm(keypointDistance(
                      Pt2(Kp(in.kpts2d, 23).x + Kp(in.kpts2d, 24).x,
                          Kp(in.kpts2d, 23).y + Kp(in.kpts2d, 24).y),
                      Pt2(Kp(in.kpts2d, 27).x + Kp(in.kpts2d, 28).x,
                          Kp(in.kpts2d, 27).y + Kp(in.kpts2d, 28).y)), 2, in.imgHeight, in),
             60, 100)
    ELSE ZeroCm

NeckWidth(in) ==
    IF ValidAt(in.kpts2d, {2, 5})
    THEN validateMeasurement(
             ToCm(keypointDistance(Kp(in.kpts2d, 2), Kp(in.kpts2d, 5)), 1, in.imgWidth, in),
             8, 15)
    ELSE ZeroCm

\* the mask has pixels and the size of the processed image, which both
\* callers pass with imgWidth columns and imgHeight rows
usePixelDetection(in) ==
    in.mask.cols > 0 /\ in.mask.rows > 0 /\ in.imgWidth > 0 /\ in.imgHeight > 0
    /\ in.mask.cols = in.imgWidth /\ in.mask.rows = in.imgHeight

\* columns x of range whose mask value on row y is read and is > 0.5; the
\* silhouette of a mask is a set of column runs <<lo, hi>>, alike on every row
Foreground(in, y, range) ==
    { x \in range : x >= 0 /\ x < in.mask.cols /\ y >= 0 /\ y < in.mask.rows
                    /\ \E run \in in.mask.runs : x >= run[1] /\ x <= run[2] }

\* the mask pixels a scan loop over range reads on row y, going up or down
\* the columns, before it breaks at edge (-1: no break):
\* <<row, first column, last column>>
MaskReads(in, y, range, edge, ascending) ==
    LET read == { x \in range : x >= 0 /\ x < in.mask.cols /\ y >= 0 /\ y < in.mask.rows
                                 /\ (edge = -1 \/ (ascending /\ x <= edge)
                                                 \/ (~ascending /\ x >= edge)) }
    IN  IF read = {} THEN {} ELSE {<<y, SetMin(read), SetMax(read)>>}

\* static_cast<int> of a normalized value times a pixel size, n in 1/(k*FP)
ToPixel(n, k, dim) == (n * dim) \div (k * FP)

\* bodyCenterX of the scans: the hip midpoint column, 0 without both hips
ScanCenterX(in) ==
    IF ValidAt(in.kpts2d, {23, 24})
    THEN ToPixel(Kp(in.kpts2d, 23).x + Kp(in.kpts2d, 24).x, 2, in.imgWidth)
    ELSE 0

\* the scan of one thigh, hip = 23 (left) or 24 (right): the two edges
\* (-1: not found), [found, width] and the mask pixels read; without the
\* scan (no aligned mask, row outside the image) nothing is read
ThighScan(in, hip, knee) ==
    LET y == ToPixel(Kp(in.kpts2d, hip).y + Kp(in.kpts2d, knee).y, 2, in.imgHeight)
        hipX == ToPixel(Kp(in.kpts2d, hip).x, 1, in.imgWidth)
        searchEnd == MinOf(hipX + (ScanCenterX(in) - hipX) * 2, in.imgWidth - 1)
        leftRange == IF hip = 23 THEN 0..(in.imgWidth - 1)
                     ELSE ScanCenterX(in)..(in.imgWidth - 1)
        rightRange == IF hip = 23 THEN hipX..searchEnd ELSE hipX..(in.imgWidth - 1)
        fromLeft == Foreground(in, y, leftRange)
        fromRight == Foreground(in, y, rightRange)
        leftEdge == IF fromLeft = {} THEN -1 ELSE SetMin(fromLeft)
        rightEdge == IF fromRight = {} THEN -1 ELSE SetMax(fromRight)
    IN  IF usePixelDetection(in) /\ y >= 0 /\ y < in.imgHeight
        THEN [scanned |-> TRUE, leftEdge |-> leftEdge, rightEdge |-> rightEdge,
              found |-> leftEdge >= 0 /\ rightEdge >= 0 /\ rightEdge > leftEdge,
              width |-> IF leftEdge >= 0 /\ rightEdge >= 0 /\ rightEdge > leftEdge
                        THEN rightEdge - leftEdge ELSE 0,
              reads |-> MaskReads(in, y, leftRange, leftEdge, TRUE)
                           \cup MaskReads(in, y, rightRange, rightEdge, FALSE)]
        ELSE [scanned |-> FALSE, leftEdge |-> -1, rightEdge |-> -1,
              found |-> FALSE, width |-> 0, reads |-> {}]

NoScan ==
    [scanned |-> FALSE, leftEdge |-> -1, rightEdge |-> -1, found |-> FALSE,
     width |-> 0, reads |-> {}]

\* the scans a call makes: one per thigh whose hip and knee are valid
ThighScans(in) ==
    IF RejectedInput(in) \/ NoBodyHeight(in) THEN [left |-> NoScan, right |-> NoScan]
    ELSE [left |-> IF ValidAt(in.kpts2d, {23, 25}) THEN ThighScan(in, 23, 25) ELSE NoScan,
          right |-> IF ValidAt(in.kpts2d, {24, 26}) THEN ThighScan(in, 24, 26) ELSE NoScan]

\* width of one thigh in 1/(2*FP) of a pixel: the scanned span, else
\* 2 * 1.5 * |hip x - centre| * imgWidth, the centre being the hip midpoint
\* or 0.5 without both hips
ThighWidthPixels(in, hip, knee) ==
    IF ThighScan(in, hip, knee).found
    THEN 2 * FP * ThighScan(in, hip, knee).width
    ELSE IF ValidAt(in.kpts2d, {23, 24})
         THEN 3 * Abs(Kp(in.kpts2d, 23).x - Kp(in.kpts2d, 24).x) * in.imgWidth
         ELSE 6 * Abs(Kp(in.kpts2d, hip).x - 500) * in.imgWidth

\* pixels in 1/(k*2*FP) times cmPerPixel
PixelsToCm(p, k, in) ==
    IF isnan(in.userHeight) THEN NaNCm
    ELSE Rat(p * in.userHeight, k * 2 * bodyHeightNormalized(in.kpts2d) * in.imgHeight)

\* (mutant) the slot needs both thighs
ThighWidth_BothOnly(in) ==
    IF ValidAt(in.kpts2d, {23, 25}) /\ ValidAt(in.kpts2d, {24, 26})
    THEN validateMeasurement(
             PixelsToCm(ThighWidthPixels(in, 23, 25) + ThighWidthPixels(in, 24, 26), 2, in),
             15, 40)
    ELSE ZeroCm

ThighWidth(in) ==
    LET leftThighValid == ValidAt(in.kpts2d, {23, 25})
        rightThighValid == ValidAt(in.kpts2d, {24, 26})
    IN  IF leftThighValid /\ rightThighValid
        THEN validateMeasurement(
                 PixelsToCm(ThighWidthPixels(in, 23, 25) + ThighWidthPixels(in, 24, 26), 2, in),
                 15, 40)
        ELSE IF leftThighValid
        THEN validateMeasurement(PixelsToCm(ThighWidthPixels(in, 23, 25), 1, in), 15, 40)
        ELSE IF rightThighValid
        THEN validateMeasurement(PixelsToCm(ThighWidthPixels(in, 24, 26), 1, in), 15, 40)
        ELSE ZeroCm

MeasurementCount == 8
ZeroMeasurements == [i \in 1..MeasurementCount |-> ZeroCm]

\* in: [kpts2d, userHeight, imgWidth, imgHeight, mask]
computeMeasurementsFrom2D(in) ==
    IF RejectedInput(in) THEN ZeroMeasurements
    ELSE IF NoBodyHeight(in) THEN ZeroMeasurements
    ELSE << ShoulderWidth(in), ArmLength(in), LegLength(in), HipWidth(in),
            UpperBodyLength(in), LowerBodyLength(in), NeckWidth(in), ThighWidth(in) >>

----------------------------------------------------------------------------
(* computeCircumferences: centimetres in 1/FP                              *)

Pi == 3142

\* (mutant) h is taken without the square
calculateEllipseCircumference_NoSquare(a, b) ==
    IF a + b = 0 THEN NaN
    ELSE Mul(Mul(Pi, a + b),
             FP + Div(3 * Div(a - b, a + b),
                      10 * FP + RoundSqrt((4 * FP - 3 * Div(a - b, a + b)) * FP)))

\* Ramanujan's approximation; with a + b = 0 the quotient is 0/0 or
\* infinite and the result a NaN
calculateEllipseCircumference(a, b) ==
    IF a + b = 0 THEN NaN
    ELSE LET h == Mul(Div(a - b, a + b), Div(a - b, a + b))
         IN  Mul(Mul(Pi, a + b), FP + Div(3 * h, 10 * FP + RoundSqrt((4 * FP - 3 * h) * FP)))

\* cv::fitEllipse on a list of (x, z) points, by the behaviour drawn for
\* the call: the box of the points, or an ellipse of size 0 x 0
fitEllipse(points, fit) ==
    IF fit = "box"
    THEN [width |-> SetMax({q[1] : q \in points}) - SetMin({q[1] : q \in points}),
          height |-> SetMax({q[2] : q \in points}) - SetMin({q[2] : q \in points})]
    ELSE [width |-> 0, height |-> 0]

\* (mutant) four points are enough for a fit
EnoughToFit_Four(n) == n >= 4

\* points2d.size() < 5 returns 0 before any fit
EnoughToFit(n) == n >= 5

\* indices of the points of the band around targetY, on one side of x = 0
\* (side -1, 1) or on any (side 0)
BandPoints(pts, targetY, tolerance, side) ==
    { i \in 1..Len(pts) :
        /\ Abs(pts[i].y - targetY) < tolerance
        /\ (side = -1 => pts[i].x < 0)
        /\ (side = 1 => pts[i].x > 0) }

\* the fit of a band and the circumference of the fitted ellipse
BandCircumference(pts, band, fit) ==
    IF ~EnoughToFit(Cardinality(band)) THEN 0
    ELSE calculateEllipseCircumference(
             Mul(fitEllipse({<<pts[i].x, pts[i].z>> : i \in band}, fit).width, 500),
             Mul(fitEllipse({<<pts[i].x, pts[i].z>> : i \in band}, fit).height, 500))

fitEllipseAtY(pts, targetY, tolerance, fit) ==
    BandCircumference(pts, BandPoints(pts, targetY, tolerance, 0), fit)

CircMinY(pts) == SetMin({pts[i].y : i \in 1..Len(pts)})
CircHeight(pts) == SetMax({pts[i].y : i \in 1..Len(pts)}) - CircMinY(pts)

\* (mutant) the size test asks for 5 points
TooFewForCircumferences_Five(pts) == Len(pts) < 5

TooFewForCircumferences(pts) == Len(pts) < 10

\* level of a band: minY + height * fraction
LevelY(pts, permille) == CircMinY(pts) + Mul(CircHeight(pts), permille)
Tolerance(pts) == Mul(CircHeight(pts), 50)

\* value > 0.0f ? value : 0.0f (a NaN is not > 0)
PositiveOrZero(value) == IF ~isnan(value) /\ value > 0 THEN value ELSE 0

\* the band of slot r (1..7): waist 50%, chest 25%, hips 60%, left and
\* right thigh 70%, left and right arm 30%
SlotBand(pts, r) ==
    BandPoints(pts,
               LevelY(pts, <<500, 250, 600, 700, 700, 300, 300>>[r]),
               Tolerance(pts),
               <<0, 0, 0, -1, 1, -1, 1>>[r])

CircumferenceCount == 7

\* in: [pts, fit]
computeCircumferences(in) ==
    IF TooFewForCircumferences(in.kpts3d) THEN [r \in 1..CircumferenceCount |-> 0]
    ELSE IF CircHeight(in.kpts3d) <= 0 THEN [r \in 1..CircumferenceCount |-> 0]
    ELSE << PositiveOrZero(fitEllipseAtY(in.kpts3d, LevelY(in.kpts3d, 500),
                                         Tolerance(in.kpts3d), in.fit)),
            PositiveOrZero(fitEllipseAtY(in.kpts3d, LevelY(in.kpts3d, 250),
                                         Tolerance(in.kpts3d), in.fit)),
            PositiveOrZero(fitEllipseAtY(in.kpts3d, LevelY(in.kpts3d, 600),
                                         Tolerance(in.kpts3d), in.fit)),
            BandCircumference(in.kpts3d, SlotBand(in.kpts3d, 4), in.fit),
            BandCircumference(in.kpts3d, SlotBand(in.kpts3d, 5), in.fit),
            BandCircumference(in.kpts3d, SlotBand(in.kpts3d, 6), in.fit),
            BandCircumference(in.kpts3d, SlotBand(in.kpts3d, 7), in.fit) >>

\* the slots whose band went to cv::fitEllipse
FittedSlots(in) ==
    IF TooFewForCircumferences(in.kpts3d) \/ CircHeight(in.kpts3d) <= 0 THEN {}
    ELSE { r \in 1..CircumferenceCount : EnoughToFit(Cardinality(SlotBand(in.kpts3d, r))) }

----------------------------------------------------------------------------
(* processThreeImages (jni_bridge.cpp): the paths to its returns           *)

\* a Java reference: null, or an array with its items
NullRef == [null |-> TRUE, items |-> <<>>]
Ref(items) == [null |-> FALSE, items |-> items]

\* a Java byte[]: null, or its length
NullImage == [null |-> TRUE, len |-> 0]
Image(len) == [null |-> FALSE, len |-> len]

\* the result for a refused input: 405 zero floats, an empty mesh and a
\* zero-filled measurement array of the given length
EmptyResult(count) ==
    [object |-> TRUE, keypoints3d |-> numKeypoints * 3, meshGlb |-> 0,
     measurements |-> [i \in 1..count |-> ZeroCm]]

NullResult == [object |-> FALSE, keypoints3d |-> 0, meshGlb |-> 0, measurements |-> <<>>]

\* RGBA = 4 bytes per pixel
ExpectedSize(width, height) == width * height * 4

\* the first image (0-based) that ends the conversion loop: a null image
\* or a byte array shorter than expected; 3 when all three pass
FirstRefused(in) ==
    IF \E i \in 1..3 : in.jImages.items[i].null
                        \/ in.jImages.items[i].len
                              < ExpectedSize(in.jWidths.items[i], in.jHeights.items[i])
    THEN SetMin({ i \in 1..3 : in.jImages.items[i].null
                        \/ in.jImages.items[i].len
                              < ExpectedSize(in.jWidths.items[i], in.jHeights.items[i]) }) - 1
    ELSE 3

\* an empty segmentation mask
NoMask == [cols |-> 0, rows |-> 0, runs |-> {}]

\* step 7: the measurements of the front view, or 8 zeros when the
\* detector gave fewer than 33 keypoints
FrontMeasurements(in) ==
    IF Len(in.detected) >= 33
    THEN computeMeasurementsFrom2D([kpts2d |-> in.detected, userHeight |-> in.userHeight,
                                    imgWidth |-> in.processedWidth,
                                    imgHeight |-> in.processedHeight, mask |-> NoMask])
    ELSE ZeroMeasurements

\* in: [classFound, constructorFound, jImages, jWidths, jHeights, userHeight,
\*      detected, processedWidth, processedHeight, throws]
processThreeImages(in) ==
    IF ~in.classFound THEN NullResult
    ELSE IF ~in.constructorFound THEN NullResult
    ELSE IF in.jImages.null \/ in.jWidths.null \/ in.jHeights.null THEN EmptyResult(8)
    ELSE IF Len(in.jImages.items) # 3 THEN EmptyResult(8)
    ELSE IF FirstRefused(in) < 3
    THEN (IF in.jImages.items[FirstRefused(in) + 1].null THEN EmptyResult(8)
          ELSE EmptyResult(7))
    ELSE IF in.throws THEN EmptyResult(8)
    ELSE [object |-> TRUE, keypoints3d |-> numKeypoints * 3, meshGlb |-> in.meshSize,
          measurements |-> FrontMeasurements(in)]

----------------------------------------------------------------------------
(* PoseEstimator::detect and MediaPipePoseDetector                         *)

LandmarkCount == 33

ZeroKeypoints == [i \in 1..numKeypoints |-> Pt2(0, 0)]

\* the midpoint of two landmarks (0-based slots), added when both x are > 0
HasMidpoint(mp, a, b) == mp[a + 1].x > 0 /\ mp[b + 1].x > 0
Midpoint2(mp, a, b) ==
    Pt2((mp[a + 1].x + mp[b + 1].x) \div 2, (mp[a + 1].y + mp[b + 1].y) \div 2)

\* the landmark pairs interpolated, in the order of the code
MidpointPairs ==
    << <<11, 12>>, <<12, 13>>, <<23, 24>>, <<24, 25>>,
       <<17, 18>>, <<18, 19>>, <<29, 30>>, <<30, 31>> >>

\* the midpoints that are added, in order
RECURSIVE MidpointsFrom(_, _)
MidpointsFrom(mp, k) ==
    IF k > Len(MidpointPairs) THEN <<>>
    ELSE (IF HasMidpoint(mp, MidpointPairs[k][1], MidpointPairs[k][2])
          THEN <<Midpoint2(mp, MidpointPairs[k][1], MidpointPairs[k][2])>>
          ELSE <<>>) \o MidpointsFrom(mp, k + 1)

\* the 33 landmarks, the midpoints, then the fill: the last keypoint before
\* the fill when its x is > 0, else the image centre (which then repeats)
mapMediaPipeTo135(mp) ==
    IF Len(mp) # LandmarkCount THEN ZeroKeypoints
    ELSE LET head == [i \in 1..LandmarkCount |-> Pt2(mp[i].x, mp[i].y)]
                         \o MidpointsFrom(mp, 1)
             fill == IF head[Len(head)].x > 0 THEN head[Len(head)] ELSE Pt2(FP \div 2, FP \div 2)
         IN  [i \in 1..numKeypoints |-> IF i <= Len(head) THEN head[i] ELSE fill]

\* (mutant) the helper is not asked
isReady_JniOnly(jni, ready) == jni

\* MediaPipePoseDetector::isReady; an exception of the helper counts as
\* not ready
isReady(jni, ready) == jni /\ ready

\* detectInternal: the detection result is stored when the helper returns
\* one; run: [outcome, landmarks]
StoresResult(outcome) == outcome \in {"shortArray", "landmarks"}

LastResultAfter(last, jni, ready, img, run) ==
    IF img.empty THEN last
    ELSE IF ~isReady(jni, ready) THEN last
    ELSE IF StoresResult(run.outcome) THEN img.id
    ELSE last

\* MediaPipePoseDetector::detect: 33 landmarks, or none
DetectLandmarks(jni, ready, img, run) ==
    IF img.empty THEN <<>>
    ELSE IF ~isReady(jni, ready) THEN <<>>
    ELSE IF run.outcome = "landmarks" THEN run.landmarks
    ELSE <<>>

\* PoseEstimator::detect; attached: getJNIEnv could attach the thread
PoseEstimatorDetect(jvm, jni, ready, img, attached, run) ==
    IF img.empty THEN ZeroKeypoints
    ELSE IF ~jvm \/ ~attached THEN ZeroKeypoints
    ELSE IF ~isReady(jni, ready) THEN ZeroKeypoints
    ELSE IF Len(DetectLandmarks(jni, ready, img, run)) # LandmarkCount THEN ZeroKeypoints
    ELSE mapMediaPipeTo135(DetectLandmarks(jni, ready, img, run))

\* the stored result after PoseEstimator::detect
LastResultAfterDetect(last, jvm, jni, ready, img, attached, run) ==
    IF img.empty \/ ~jvm \/ ~attached THEN last
    ELSE LastResultAfter(last, jni, ready, img, run)

\* getSegmentationMask: the mask of the stored result (0: an empty Mat)
getSegmentationMask(last, jni, img) ==
    IF last = 0 \/ ~jni THEN 0
    ELSE IF img.empty THEN 0
    ELSE last

----------------------------------------------------------------------------
(* The image size test of the JNI entry points (jni_bridge.cpp)            *)

MaxInt32 == 2147483647
MinInt32 == -MaxInt32 - 1

\* (x * y) mod 2^16 for 0 <= x, y < 2^16
MulMod16(x, y) == (((x * (y \div 256)) % 256) * 256 + x * (y % 256)) % 65536

\* a * b in 32-bit two's complement, from the 16-bit halves of a and b
Mul32(a, b) ==
    LET a0 == a % 65536
        a1 == (a \div 65536) % 65536
        b0 == b % 65536
        b1 == (b \div 65536) % 65536
        t1 == a0 * (b0 \div 256)
        t0 == a0 * (b0 % 256)
        low == ((t1 % 256) * 256 + t0) % 65536
        carry == (t1 \div 256) + ((t1 % 256) * 256 + t0) \div 65536
        high == (carry + MulMod16(a1, b0) + MulMod16(a0, b1)) % 65536
    IN  IF high >= 32768 THEN (high - 65536) * 65536 + low ELSE high * 65536 + low

\* width * height * 4 does not fit a jint (signed overflow: undefined)
Overflows(width, height) ==
    /\ width > 0
    /\ height > 0
    /\ height > (MaxInt32 \div 4) \div width

\* what `jint expectedSize = width * height * 4` can hold: the product, or
\* on signed overflow the wrapped product or any other value a build yields
ExpectedSizeOutcomes(width, height) ==
    IF Overflows(width, height)
    THEN {Mul32(Mul32(width, height), 4), MinInt32, MaxInt32}
    ELSE {ExpectedSize(width, height)}

EntryPoints == {"processOneImage", "processThreeImages", "validateImage", "detectKeypoints"}

\* width <= 0 || height <= 0 (lines 784, 968, 1031); the loop of
\* processThreeImages has no such test
DimsRefused(entry, width, height) ==
    entry # "processThreeImages" /\ (width <= 0 \/ height <= 0)

\* len >= expectedSize * 0.9, the product taken in double arithmetic
WithinTolerance(len, expected) ==
    IF expected < 0 THEN TRUE ELSE len >= expected - expected \div 10

\* len < expectedSize (lines 191, 808); len < expectedSize * 0.9 (lines
\* 975, 1038)
LengthRefused(entry, len, expected) ==
    IF entry \in {"processOneImage", "processThreeImages"}
    THEN len < expected
    ELSE ~WithinTolerance(len, expected)

\* the entry point reaches cv::Mat rgba(height, width, CV_8UC4, buf)
BuildsMat(in) ==
    /\ ~in.null
    /\ ~DimsRefused(in.entry, in.width, in.height)
    /\ ~LengthRefused(in.entry, in.len, in.expectedSize)

----------------------------------------------------------------------------
(* Calls of the triangulator: arguments drawn from small sets              *)

MaxViews == 4
ShortLen == 3

\* a view of len keypoints: y0 at index 0, yMid at indices 1..49, yLate from 50
MkView(len, y0, yMid, yLate) ==
    [i \in 1..len |-> [x |-> 500, y |-> IF i = 1 THEN y0
                                         ELSE IF i <= SampleCount THEN yMid
                                         ELSE yLate]]

View0Set ==
    { MkView(numKeypoints, 100, 900, 950),   \* extent 0.8 in the sample, 0.85 overall
      MkView(numKeypoints, 300, 700, 0),     \* extent 0.4
      MkView(numKeypoints, 0, FP, 500),      \* nothing strictly inside (0,1) sampled
      MkView(numKeypoints, 500, 500, 200),   \* a single sampled value: extent 0
      MkView(ShortLen, 100, 900, 0),         \* fewer points than the sample
      MkView(0, 0, 0, 0) }

\* sizes of view 1 and view 2
OtherLens == { <<numKeypoints, numKeypoints>>, <<ShortLen, numKeypoints>>,
               <<numKeypoints, ShortLen>> }

Heights == {0, 100, 170}

\* what cv::triangulatePoints may return for keypoint i (1-based): two
\* families of homogeneous 4-vectors, the second with zero and negative w
TriPoints ==
    { [i \in 1..numKeypoints |-> [x |-> i - 60, y |-> 2 * i - 100, z |-> 150, w |-> 1]],
      [i \in 1..numKeypoints |->
          [x |-> 3 * i, y |-> -i, z |-> 40 - i,
           w |-> IF i % 4 = 0 THEN 0 ELSE IF i % 4 = 1 THEN -2 ELSE 2]] }

\* calls with three views, and calls with any other number of views
TriInputs ==
    { [kpts2d |-> <<v0, MkView(l[1], 200, 800, 500), MkView(l[2], 200, 800, 500)>>,
       userHeight |-> h, tri |-> t] :
        v0 \in View0Set, l \in OtherLens, h \in Heights, t \in TriPoints }
    \cup
    { [kpts2d |-> [k \in 1..n |-> MkView(numKeypoints, 100, 900, 950)],
       userHeight |-> h, tri |-> t] :
        n \in (0..MaxViews) \ {3}, h \in Heights, t \in TriPoints }

NoCall == [kpts2d |-> <<>>, userHeight |-> 0, tri |-> <<>>]

InitTri ==
    /\ scaleFactor = Rat(1, 1)
    /\ scaleComputed = FALSE
    /\ triDone = FALSE
    /\ triIn = NoCall
    /\ triOut = <<>>

Triangulate ==
    \E in \in TriInputs :
        \E r \in {triangulate(in.kpts2d, in.userHeight, in.tri, scaleFactor, scaleComputed)} :
            /\ triDone' = TRUE
            /\ triIn' = in
            /\ triOut' = r.kpts3d
            /\ scaleFactor' = r.scaleFactor
            /\ scaleComputed' = r.scaleComputed
            /\ UNCHANGED notTri

----------------------------------------------------------------------------
(* Concurrent calls of the triangulator: two threads, each in one call on  *)
(* three full views, sharing the statics scaleFactor and scaleComputed.    *)
(* A thread's step is one access to a static; the loop over the keypoints  *)
(* is cut to its first RacePoints iterations                               *)

RacePoints == 3
Threads == {1, 2}

SideView == MkView(numKeypoints, 200, 800, 500)

ThreadCalls ==
    { [kpts2d |-> <<v0, SideView, SideView>>, userHeight |-> h] :
        v0 \in { MkView(numKeypoints, 100, 900, 950),
                 MkView(numKeypoints, 300, 700, 0),
                 MkView(numKeypoints, 500, 500, 200) },
        h \in Heights }

NoThreadCall == [kpts2d |-> <<>>, userHeight |-> 0]

IdleThr ==
    /\ thrPc = [t \in Threads |-> "idle"]
    /\ thrArgs = [t \in Threads |-> NoThreadCall]
    /\ thrI = [t \in Threads |-> 0]
    /\ thrApplied = [t \in Threads |-> <<>>]

\* both threads have entered triangulate and stand at the first iteration
InitThr ==
    /\ thrPc = [t \in Threads |-> "test"]
    /\ thrArgs \in [Threads -> ThreadCalls]
    /\ thrI = [t \in Threads |-> 0]
    /\ thrApplied = [t \in Threads |-> <<>>]

\* line 128: if (!scaleComputed && userHeight > 0.0f), a read of the flag
ThreadTest(t) ==
    /\ thrPc[t] = "test"
    /\ thrPc' = [thrPc EXCEPT ![t] =
                    IF MustComputeScale(scaleComputed, thrArgs[t].userHeight)
                    THEN "store" ELSE "apply"]
    /\ UNCHANGED <<scaleFactor, scaleComputed, thrArgs, thrI, thrApplied,
                   triDone, triIn, triOut, glbVars, meshVars, m2dVars, circVars,
                   ellVars, p3Vars, detVars, epVars>>

\* the block stores a factor (line 146) when the sample has an extent
ThreadWrites(t) ==
    /\ YExtent(thrArgs[t].kpts2d) > 0
    /\ YExtent(thrArgs[t].kpts2d) * HeightPerUnitY > 0

\* lines 131-148: the sample of the thread's own view 0, and the write of
\* scaleFactor
ThreadStore(t) ==
    /\ thrPc[t] = "store"
    /\ scaleFactor' = IF ThreadWrites(t)
                      THEN HeightScale(thrArgs[t].kpts2d, thrArgs[t].userHeight)
                      ELSE scaleFactor
    /\ thrPc' = [thrPc EXCEPT ![t] = "flag"]
    /\ UNCHANGED <<scaleComputed, thrArgs, thrI, thrApplied,
                   triDone, triIn, triOut, glbVars, meshVars, m2dVars, circVars,
                   ellVars, p3Vars, detVars, epVars>>

\* line 150: scaleComputed = true
ThreadFlag(t) ==
    /\ thrPc[t] = "flag"
    /\ scaleComputed' = TRUE
    /\ thrPc' = [thrPc EXCEPT ![t] = "apply"]
    /\ UNCHANGED <<scaleFactor, thrArgs, thrI, thrApplied,
                   triDone, triIn, triOut, glbVars, meshVars, m2dVars, circVars,
                   ellVars, p3Vars, detVars, epVars>>

\* lines 153-160: the read of scaleFactor, the push, and the loop's ++i
ThreadApply(t) ==
    /\ thrPc[t] = "apply"
    /\ thrApplied' = [thrApplied EXCEPT ![t] = Append(@, scaleFactor)]
    /\ thrI' = [thrI EXCEPT ![t] = @ + 1]
    /\ thrPc' = [thrPc EXCEPT ![t] = IF thrI[t] + 1 = RacePoints THEN "done" ELSE "test"]
    /\ UNCHANGED <<scaleFactor, scaleComputed, thrArgs,
                   triDone, triIn, triOut, glbVars, meshVars, m2dVars, circVars,
                   ellVars, p3Vars, detVars, epVars>>

----------------------------------------------------------------------------
(* Calls of the JNI entry points: one image per call                       *)

ImageDims == {0, 1, 10, 480, 23171, 32768, 65536}

\* lengths of the byte array around the size the entry point expects
ArrayLengths(expected) ==
    {0, MaxInt32}
        \cup (IF expected > 0
              THEN {expected, expected - 1, expected - expected \div 10,
                    expected - expected \div 10 - 1}
              ELSE {})

EntryInputs ==
    UNION { UNION { { [entry |-> e, null |-> FALSE, width |-> w, height |-> h,
                       len |-> l, expectedSize |-> x] : l \in ArrayLengths(x) }
                        \cup { [entry |-> e, null |-> TRUE, width |-> w, height |-> h,
                                len |-> 0, expectedSize |-> x] } :
                    x \in ExpectedSizeOutcomes(w, h) } :
            e \in EntryPoints, w \in ImageDims, h \in ImageDims }

NoEntryCall ==
    [entry |-> "processOneImage", null |-> TRUE, width |-> 0, height |-> 0,
     len |-> 0, expectedSize |-> 0]

IdleEp ==
    /\ epPc = "idle"
    /\ epIn = NoEntryCall
    /\ epOut = [built |-> FALSE]

InitEp ==
    /\ epPc = "call"
    /\ epIn \in EntryInputs
    /\ epOut = [built |-> FALSE]

\* the entry point up to the construction of the RGBA matrix, or to the
\* return of its zero / empty result
EnterNative ==
    /\ epPc = "call"
    /\ epOut' = [built |-> BuildsMat(epIn)]
    /\ epPc' = "done"
    /\ UNCHANGED <<epIn, notEp>>

----------------------------------------------------------------------------
(* Calls of the encoder: one call per behaviour, arguments drawn in Init   *)

MaxVerts == 2
MaxNormals == 2
MaxIndices == 3

VertexSet == { <<0, 0, 0>>, <<-1500, 250, 12500>>, <<150000, -250, 7>> }

\* a list of points as the flat list of their coordinates
Flat(points) ==
    [k \in 1..(3 * Len(points)) |-> points[((k - 1) \div 3) + 1][((k - 1) % 3) + 1]]

GlbInputs ==
    { [vertices |-> Flat(vs),
       normals |-> Flat([k \in 1..nn |-> <<0, FP, 0>>]),
       indices |-> [k \in 1..ni |-> (k - 1) * 300]] :
        vs \in UNION { [1..n -> VertexSet] : n \in 0..MaxVerts },
        nn \in 0..MaxNormals, ni \in 0..MaxIndices }

NoBuffers == [vertices |-> <<>>, normals |-> <<>>, indices |-> <<>>]

IdleGlb ==
    /\ glbPc = "idle"
    /\ glbIn = NoBuffers
    /\ glbOut = <<>>

InitGlb ==
    /\ glbPc = "call"
    /\ glbIn \in GlbInputs
    /\ glbOut = <<>>

EncodeGLB ==
    /\ glbPc = "call"
    /\ glbOut' = createGLBManually(glbIn.vertices, glbIn.normals, glbIn.indices)
    /\ glbPc' = "done"
    /\ UNCHANGED <<glbIn, notGlb>>

----------------------------------------------------------------------------
(* Calls of the mesh builder: one call per behaviour, the skeleton drawn   *)
(* in Init; the call advances block by block                               *)

\* a standing BODY_25 skeleton in centimetres, slots 0..14
BaseSkeleton ==
    << <<0, 160, 5>>, <<0, 145, 0>>, <<-18, 142, 0>>, <<-22, 115, 2>>, <<-24, 90, 4>>,
       <<18, 142, 0>>, <<22, 115, 2>>, <<24, 90, 4>>, <<0, 95, 0>>, <<-10, 95, 0>>,
       <<-11, 52, 1>>, <<-12, 10, 0>>, <<10, 95, 0>>, <<11, 52, 1>>, <<12, 10, 0>> >>

AllSlots == 0..14

\* n keypoints: slot k of the skeleton times unit for k in valid, (0,0,0) in
\* the other anchor slots, and filler from slot 15 on
Skeleton(n, unit, valid, filler) ==
    [i \in 1..n |->
        IF i <= 15
        THEN IF (i - 1) \in valid
             THEN Pt(BaseSkeleton[i][1] * unit, BaseSkeleton[i][2] * unit,
                     BaseSkeleton[i][3] * unit)
             ELSE Origin
        ELSE filler]

\* the three hip anchors on one point, every other anchor undetected
HipCluster(n, filler) ==
    [i \in 1..n |-> IF i \in {9, 10, 13} THEN Pt(FP, FP, FP)
                    ELSE IF i <= 15 THEN Origin ELSE filler]

MaxExtra == 25
Filler == Pt(FP, FP, FP)

\* a nose and two shoulders `width` apart, every other anchor undetected:
\* the head ellipsoid alone, 0.75 * width tall
HeadAndShoulders(n, width, filler) ==
    [i \in 1..n |-> IF i \in {1, 6} THEN Pt(0, FP, 0)
                    ELSE IF i = 3 THEN Pt(width, FP, 0)
                    ELSE IF i <= 15 THEN Origin ELSE filler]

MeshInputs ==
    { Skeleton(MaxExtra, 1000, AllSlots, Filler),        \* centimetres
      Skeleton(MaxExtra, 10, AllSlots, Filler),          \* metres
      Skeleton(MaxExtra, 1, AllSlots, Filler),           \* undersized
      Skeleton(135, 1000, AllSlots, Origin),             \* all 135 slots, filler undetected
      Skeleton(MinKeypoints, 1000, AllSlots, Origin),    \* exactly 15 keypoints
      Skeleton(MinKeypoints - 1, 1000, AllSlots, Origin),\* 14 keypoints, all valid
      Skeleton(MaxExtra, 1000, 0..8, Origin),            \* 9 valid of 25
      Skeleton(MaxExtra, 1000, 0..8, Pt(NaN, 0, 0)),     \* 9 valid, the rest NaN
      Skeleton(MaxExtra, 1000, 0..8, Pt(5, -Inf, 0)),    \* 9 valid, the rest infinite
      Skeleton(MaxExtra, 1000, 0..9, Origin),            \* 10 valid of 25
      Skeleton(MaxExtra, 1000, 0..7, Filler),            \* upper body, filler valid
      Skeleton(MaxExtra, 1000, 8..14, Filler),           \* pelvis and legs
      Skeleton(MaxExtra, 1000, {0}, Filler),             \* nose only
      Skeleton(MaxExtra, 1000, {8}, Filler),             \* mid-hip only
      Skeleton(MaxExtra, 1000, AllSlots \ {0, 10}, Filler),
      Skeleton(MaxExtra, 10, {2, 3, 5, 6}, Filler),      \* upper arms only
      Skeleton(MaxExtra, 1000, {}, Filler),              \* every anchor (0,0,0)
      HipCluster(MaxExtra, Filler),
      HeadAndShoulders(MaxExtra, 1328, Filler),          \* extent 0.996
      HeadAndShoulders(MaxExtra, 1332, Filler),          \* extent 1.0
      HeadAndShoulders(MaxExtra, 133332, Filler),        \* extent 100.0
      HeadAndShoulders(MaxExtra, 133336, Filler),        \* extent 100.002
      <<>> }

IdleMesh ==
    /\ meshPc = "idle"
    /\ kpts3d = <<>>
    /\ segment = 0
    /\ allBuffers = EmptyBuffers
    /\ maxSize = 0
    /\ scale = FP
    /\ placeholder = FALSE
    /\ meshOut = <<>>
    /\ meshLog = {}

InitMesh ==
    /\ meshPc = "call"
    /\ kpts3d \in MeshInputs
    /\ segment = 0
    /\ allBuffers = EmptyBuffers
    /\ maxSize = 0
    /\ scale = FP
    /\ placeholder = FALSE
    /\ meshOut = <<>>
    /\ meshLog = {}

\* lines 501-515: the size and validity checks
MeshValidate ==
    /\ meshPc = "call"
    /\ IF Rejected(kpts3d)
       THEN meshPc' = "done" /\ segment' = segment
       ELSE meshPc' = "build" /\ segment' = 1
    /\ UNCHANGED <<kpts3d, allBuffers, maxSize, scale, placeholder, meshOut, meshLog, notMesh>>

\* lines 583-697: one numbered block
MeshSegment ==
    /\ meshPc = "build"
    /\ allBuffers' = BuildSegment(segment, kpts3d, allBuffers)
    /\ segment' = segment + 1
    /\ meshPc' = IF segment = SegmentCount THEN "finish" ELSE "build"
    /\ UNCHANGED <<kpts3d, maxSize, scale, placeholder, meshOut, meshLog, notMesh>>

\* lines 699-797: nothing generated: return empty; else bounding box,
\* placeholder or unit scale, recentring
MeshNormalise ==
    /\ meshPc = "finish"
    /\ IF allBuffers.vertices = <<>> \/ allBuffers.indices = <<>>
       THEN /\ meshPc' = "done"
            /\ UNCHANGED <<allBuffers, maxSize, scale, placeholder>>
       ELSE \E size \in {MaxSizeOf(allBuffers.vertices)} :
              IF IsDegenerate(size)
              THEN /\ allBuffers' = [PlaceholderBuffers EXCEPT !.vertices =
                                        Recentred(PlaceholderBuffers.vertices, 0, 0, 0, FP)]
                   /\ maxSize' = PlaceholderSize
                   /\ scale' = FP
                   /\ placeholder' = TRUE
                   /\ meshPc' = "encode"
              ELSE /\ allBuffers' = [allBuffers EXCEPT !.vertices =
                                        Recentred(allBuffers.vertices,
                                                  CenterOf(allBuffers.vertices, 1),
                                                  CenterOf(allBuffers.vertices, 2),
                                                  CenterOf(allBuffers.vertices, 3),
                                                  ScaleFor(size))]
                   /\ maxSize' = size
                   /\ scale' = ScaleFor(size)
                   /\ placeholder' = FALSE
                   /\ meshPc' = "encode"
    /\ UNCHANGED <<kpts3d, segment, meshOut, meshLog, notMesh>>

\* line 817
MeshEncode ==
    /\ meshPc = "encode"
    /\ meshOut' = createGLBManually(allBuffers.vertices, allBuffers.normals,
                                    allBuffers.indices)
    /\ meshPc' = "done"
    /\ UNCHANGED <<kpts3d, segment, allBuffers, maxSize, scale, placeholder, meshLog, notMesh>>

\* the skeletons of the repeated calls
RepeatInputs ==
    { Skeleton(MaxExtra, 1000, {8}, Filler),
      Skeleton(MaxExtra, 10, {2, 3, 5, 6}, Filler),
      Skeleton(MaxExtra, 1000, {}, Filler),
      HipCluster(MaxExtra, Filler) }

MaxLogged == 3

\* (mutant) the vertex, normal and index lists outlive the call
LocalBuffers_Static(previous) == previous

\* lines 559-562: the lists are locals, empty at every entry
LocalBuffers(previous) == EmptyBuffers

InitMeshCalls ==
    /\ meshPc = "call"
    /\ kpts3d \in RepeatInputs
    /\ segment = 0
    /\ allBuffers = EmptyBuffers
    /\ maxSize = 0
    /\ scale = FP
    /\ placeholder = FALSE
    /\ meshOut = <<>>
    /\ meshLog = {}

\* the call has returned and the caller calls again: every local is new
MeshCallAgain ==
    /\ meshPc = "done"
    /\ meshLog' = IF (\E e \in meshLog : e.in = kpts3d) \/ Cardinality(meshLog) >= MaxLogged
                  THEN meshLog
                  ELSE meshLog \cup {[in |-> kpts3d, out |-> meshOut]}
    /\ kpts3d' \in RepeatInputs
    /\ meshPc' = "call"
    /\ segment' = 0
    /\ allBuffers' = LocalBuffers(allBuffers)
    /\ maxSize' = 0
    /\ scale' = FP
    /\ placeholder' = FALSE
    /\ meshOut' = <<>>
    /\ UNCHANGED notMesh


----------------------------------------------------------------------------
(* Calls of computeMeasurementsFrom2D: one call per behaviour              *)

\* landmark slots of the person's left side
LeftSlots == {1, 2, 3, 7, 9} \cup {s \in 11..32 : s % 2 = 1}

\* a standing pose: shoulders half a width sh apart from the centre line,
\* the left side at larger x, or at smaller x when flipped
PosePoint(s, sh, flip) ==
    LET side == IF (s \in LeftSlots) = flip THEN -1 ELSE 1
        off == IF s = 0 THEN 0
               ELSE IF s \in {1, 4} THEN 10
               ELSE IF s \in {2, 5} THEN 30
               ELSE IF s \in {3, 6} THEN 40
               ELSE IF s \in {7, 8} THEN 60
               ELSE IF s \in {9, 10} THEN 15
               ELSE IF s \in {11, 12} THEN sh
               ELSE IF s \in {13, 14} THEN sh + 20
               ELSE IF s \in {15, 16} THEN sh + 30
               ELSE IF s \in 17..22 THEN sh + 35
               ELSE 90
        y == IF s = 0 THEN 100
             ELSE IF s \in 1..6 THEN 90
             ELSE IF s \in {7, 8} THEN 100
             ELSE IF s \in {9, 10} THEN 120
             ELSE IF s \in {11, 12} THEN 220
             ELSE IF s \in {13, 14} THEN 400
             ELSE IF s \in {15, 16} THEN 560
             ELSE IF s \in 17..22 THEN 590
             ELSE IF s \in {23, 24} THEN 520
             ELSE IF s \in {25, 26} THEN 700
             ELSE IF s \in {27, 28} THEN 860
             ELSE IF s \in {29, 30} THEN 880
             ELSE 900
    IN  Pt2(500 + side * off, y)

\* n keypoints: the pose in slots 0..32, (0,0) in the filler slots, with
\* the slots of moved put at pt
Pose(n, sh, flip, moved, pt) ==
    [i \in 1..n |-> IF (i - 1) \in moved THEN pt
                    ELSE IF i <= 33 THEN PosePoint(i - 1, sh, flip)
                    ELSE Pt2(0, 0)]

OffImage == Pt2(1500, 90)
AtOrigin == Pt2(0, 0)

Poses ==
    { Pose(33, 100, FALSE, {}, AtOrigin),
      Pose(33, 125, FALSE, {}, AtOrigin),
      Pose(33, 125, TRUE, {}, AtOrigin),
      Pose(33, 150, FALSE, {}, AtOrigin),
      Pose(33, 125, FALSE, {0}, AtOrigin),
      Pose(33, 125, FALSE, {11}, AtOrigin),
      Pose(33, 125, FALSE, {28}, AtOrigin),
      Pose(33, 125, FALSE, 27..32, AtOrigin),
      Pose(33, 125, FALSE, 0..32, AtOrigin),
      Pose(33, 125, FALSE, {1}, OffImage),
      Pose(33, 125, FALSE, {1}, Pt2(NaN, 90)),
      Pose(33, 125, FALSE, 27..32, OffImage),
      Pose(33, 125, FALSE, {0}, OffImage),
      Pose(33, 125, FALSE, {0}, Pt2(500, 950)),
      Pose(33, 125, FALSE, {0}, Pt2(500, 900)),
      Pose(33, 125, FALSE, {24}, OffImage),
      Pose(33, 125, TRUE, {25}, OffImage),
      Pose(33, 125, TRUE, {11, 23}, OffImage),
      Pose(32, 125, FALSE, {}, AtOrigin),
      Pose(135, 125, TRUE, {}, AtOrigin),
      <<>> }

ReferenceHeights == {0, 120, 170, 300, 301, NaN}

ImageSizes == { <<480, 640>>, <<640, 1000>>, <<0, 640>>, <<640, 0>> }

\* no mask, a silhouette over the middle 30% of every row, two thighs
\* with a gap between them, thighs with the arms hanging beside them, and
\* a mask of another size than the image
Masks(w, h) ==
    { NoMask,
      [cols |-> w, rows |-> h, runs |-> {<<(35 * w) \div 100, (65 * w) \div 100>>}],
      [cols |-> w, rows |-> h, runs |-> {<<(35 * w) \div 100, (47 * w) \div 100>>,
                                        <<(53 * w) \div 100, (65 * w) \div 100>>}],
      [cols |-> w, rows |-> h, runs |-> {<<(20 * w) \div 100, (27 * w) \div 100>>,
                                        <<(35 * w) \div 100, (47 * w) \div 100>>,
                                        <<(53 * w) \div 100, (65 * w) \div 100>>,
                                        <<(73 * w) \div 100, (80 * w) \div 100>>}],
      [cols |-> w + 1, rows |-> h, runs |-> {<<0, w>>}] }

M2dInputs ==
    UNION { { [kpts2d |-> k, userHeight |-> uh, imgWidth |-> size[1],
               imgHeight |-> size[2], mask |-> m] :
                k \in Poses, uh \in ReferenceHeights, m \in Masks(size[1], size[2]) } :
            size \in ImageSizes }

NoM2dCall == [kpts2d |-> <<>>, userHeight |-> 0, imgWidth |-> 0, imgHeight |-> 0,
              mask |-> NoMask]

IdleM2d ==
    /\ m2dPc = "idle"
    /\ m2dIn = NoM2dCall
    /\ m2dOut = <<>>
    /\ m2dScan = [left |-> NoScan, right |-> NoScan]

InitM2d ==
    /\ m2dPc = "call"
    /\ m2dIn \in M2dInputs
    /\ m2dOut = <<>>
    /\ m2dScan = [left |-> NoScan, right |-> NoScan]

Measure2D ==
    /\ m2dPc = "call"
    /\ m2dOut' = computeMeasurementsFrom2D(m2dIn)
    /\ m2dScan' = ThighScans(m2dIn)
    /\ m2dPc' = "done"
    /\ UNCHANGED <<m2dIn, notM2d>>

----------------------------------------------------------------------------
(* Calls of computeCircumferences: one call per behaviour                  *)

BodyBottom == 100 * FP

\* the points of slot r's region in a test body: n points at the region's
\* level, left and right of x = 0 as the region asks
Ring(r, n, armY) ==
    [i \in 1..n |->
        Pt((IF <<0, 0, 0, -1, 1, -1, 1>>[r] = 0
               THEN (IF i % 2 = 1 THEN -1 ELSE 1)
               ELSE <<0, 0, 0, -1, 1, -1, 1>>[r]) * (r * 1500 + i * 1000),
           <<50 * FP, 22 * FP, 60 * FP, 70 * FP, 70 * FP, armY, armY>>[r],
           ((i * i) % 7) * 800 * r)]

\* a body from head to feet with counts[r] points in the region of slot r;
\* arm points at armY lie inside or outside the chest band
Cloud(counts, armY) ==
    <<Pt(0, 0, 0), Pt(0, BodyBottom, 0)>>
        \o Ring(1, counts[1], armY) \o Ring(2, counts[2], armY)
        \o Ring(3, counts[3], armY) \o Ring(4, counts[4], armY)
        \o Ring(5, counts[5], armY) \o Ring(6, counts[6], armY)
        \o Ring(7, counts[7], armY)

RegionCounts == [1..7 -> {4, 5}]

\* nine points, five of them at the waist
NinePoints == Cloud(<<5, 0, 2, 0, 0, 0, 0>>, 32 * FP)

\* twelve points at one height
FlatCloud == [i \in 1..12 |-> Pt((i - 6) * 1000, 50 * FP, i * 500)]

Clouds ==
    { Cloud(c, armY) : c \in RegionCounts, armY \in {32 * FP, 27 * FP} }
        \cup { NinePoints, FlatCloud, <<>>,
               Cloud(<<6, 0, 0, 0, 6, 0, 0>>, 32 * FP),
               Cloud(<<0, 0, 0, 0, 0, 0, 0>>, 32 * FP) }

CircInputs == [kpts3d : Clouds, fit : {"box", "flat"}]

NoCircCall == [kpts3d |-> <<>>, fit |-> "box"]

IdleCirc ==
    /\ circPc = "idle"
    /\ circIn = NoCircCall
    /\ circOut = <<>>
    /\ circFits = {}

InitCirc ==
    /\ circPc = "call"
    /\ circIn \in CircInputs
    /\ circOut = <<>>
    /\ circFits = {}

Circumferences ==
    /\ circPc = "call"
    /\ circOut' = computeCircumferences(circIn)
    /\ circFits' = FittedSlots(circIn)
    /\ circPc' = "done"
    /\ UNCHANGED <<circIn, notCirc>>

----------------------------------------------------------------------------
(* Calls of calculateEllipseCircumference: a call, then the call with the  *)
(* two semi-axes exchanged                                                 *)

MaxEllipseCalls == 2

SemiAxes == {0, 500, 1000, 2500, 4000, 7000, 10000, 15000, 22000, 30000, 41000, 50000}

IdleEll ==
    /\ ellArgs = <<0, 0>>
    /\ ellLog = {}

InitEll ==
    /\ ellArgs \in SemiAxes \X SemiAxes
    /\ ellLog = {}

EllipseCall ==
    /\ Cardinality(ellLog) < MaxEllipseCalls
    /\ ellLog' = ellLog \cup
          {[a |-> ellArgs[1], b |-> ellArgs[2],
            result |-> calculateEllipseCircumference(ellArgs[1], ellArgs[2])]}
    /\ ellArgs' = <<ellArgs[2], ellArgs[1]>>
    /\ UNCHANGED notEll

----------------------------------------------------------------------------
(* Calls of processThreeImages: one call per behaviour                     *)

\* byte arrays for an image of 2 x 2 pixels: null, one byte short, exact,
\* longer
ImageChoices == {NullImage, Image(15), Image(16), Image(20)}

ImageArrays ==
    {NullRef, Ref(<<>>), Ref(<<Image(16), Image(16)>>),
     Ref(<<Image(16), Image(16), Image(16), Image(16)>>)}
        \cup { Ref(<<a, b, c>>) : a \in ImageChoices, b \in ImageChoices, c \in ImageChoices }

SizeArrays == {NullRef, Ref(<<2, 2, 2>>)}

P3Inputs ==
    [classFound : BOOLEAN, constructorFound : BOOLEAN,
     jImages : ImageArrays, jWidths : SizeArrays, jHeights : SizeArrays,
     userHeight : {170},
     detected : {<<>>, Pose(33, 125, FALSE, {}, AtOrigin)},
     processedWidth : {480}, processedHeight : {640},
     meshSize : {0, 1000},
     throws : BOOLEAN]

NoP3Call ==
    [classFound |-> TRUE, constructorFound |-> TRUE, jImages |-> NullRef,
     jWidths |-> NullRef, jHeights |-> NullRef, userHeight |-> 0, detected |-> <<>>,
     processedWidth |-> 0, processedHeight |-> 0, meshSize |-> 0, throws |-> FALSE]

IdleP3 ==
    /\ p3Pc = "idle"
    /\ p3In = NoP3Call
    /\ p3Out = NullResult

InitP3 ==
    /\ p3Pc = "call"
    /\ p3In \in P3Inputs
    /\ p3Out = NullResult

ProcessThreeImages ==
    /\ p3Pc = "call"
    /\ p3Out' = processThreeImages(p3In)
    /\ p3Pc' = "done"
    /\ UNCHANGED <<p3In, notP3>>

----------------------------------------------------------------------------
(* Calls of the pose detector: any sequence of initialize, release,        *)
(* PoseEstimator::detect and detection loops of processThreeImages         *)

MaxDetCalls == 4

\* images by identity: the three views of a processThreeImages call, one
\* more image, and an empty one
EmptyImage == [id |-> 9, empty |-> TRUE]
View(i) == [id |-> i + 1, empty |-> FALSE]
DetImages == {View(0), [id |-> 4, empty |-> FALSE], EmptyImage}

\* 33 landmarks of a standing pose, and 33 landmarks at the origin
Landmarks(flip) == [i \in 1..33 |-> [x |-> PosePoint(i - 1, 125, flip).x,
                                      y |-> PosePoint(i - 1, 125, flip).y, z |-> 0]]
OriginLandmarks == [i \in 1..33 |-> [x |-> 0, y |-> 0, z |-> 0]]

\* what the helper does with an image: detectPose throws or returns null,
\* the result has a landmark array of another length, or 33 landmarks are
\* delivered
DetectionRuns ==
    { [outcome |-> o, landmarks |-> <<>>] : o \in {"throws", "noResult", "shortArray"} }
        \cup { [outcome |-> "landmarks", landmarks |-> l] :
                  l \in {Landmarks(FALSE), OriginLandmarks} }

\* for a view of processThreeImages: no result, or 33 landmarks
ViewRuns ==
    { [outcome |-> "noResult", landmarks |-> <<>>],
      [outcome |-> "landmarks", landmarks |-> Landmarks(FALSE)] }

NoPeCall ==
    [made |-> FALSE, img |-> EmptyImage, jvm |-> FALSE, jni |-> FALSE, ready |-> FALSE,
     attached |-> FALSE, outcome |-> "none", keypoints |-> <<>>]

NoThreeViews == [made |-> FALSE, detected |-> <<>>, maskOf |-> 0, before |-> 0]

InitDet ==
    /\ g_jvm = FALSE
    /\ jniInitialized = FALSE
    /\ helperReady = FALSE
    /\ lastDetectionResult = 0
    /\ peCall = NoPeCall
    /\ threeViews = NoThreeViews
    /\ detCalls = 0

\* MediaPipePoseDetector::initialize: the JNI lookups, the context test,
\* then the helper's initialize, which returns true or false or throws
InitializeDetector ==
    /\ detCalls < MaxDetCalls
    /\ \E lookups \in BOOLEAN, context \in BOOLEAN, helper \in {"true", "false", "throws"} :
          /\ jniInitialized' = (jniInitialized \/ lookups)
          /\ g_jvm' = (g_jvm \/ (jniInitialized' /\ context))
          /\ helperReady' = IF jniInitialized' /\ context /\ helper = "true" THEN TRUE
                            ELSE helperReady
    /\ detCalls' = detCalls + 1
    /\ UNCHANGED <<lastDetectionResult, peCall, threeViews, notDet>>

\* MediaPipePoseDetector::release
ReleaseDetector ==
    /\ detCalls < MaxDetCalls
    /\ helperReady' = IF jniInitialized THEN FALSE ELSE helperReady
    /\ detCalls' = detCalls + 1
    /\ UNCHANGED <<g_jvm, jniInitialized, lastDetectionResult, peCall, threeViews, notDet>>

\* one PoseEstimator::detect call
Detect ==
    /\ detCalls < MaxDetCalls
    /\ \E img \in DetImages, attached \in BOOLEAN, run \in DetectionRuns :
          /\ peCall' = [made |-> TRUE, img |-> img, jvm |-> g_jvm, jni |-> jniInitialized,
                        ready |-> helperReady, attached |-> attached,
                        outcome |-> run.outcome,
                        keypoints |-> PoseEstimatorDetect(g_jvm, jniInitialized, helperReady,
                                                          img, attached, run)]
          /\ lastDetectionResult' =
                LastResultAfterDetect(lastDetectionResult, g_jvm, jniInitialized,
                                      helperReady, img, attached, run)
    /\ detCalls' = detCalls + 1
    /\ UNCHANGED <<g_jvm, jniInitialized, helperReady, threeViews, notDet>>

\* steps 4 and 7 of processThreeImages: PoseEstimator::detect on view 0,
\* 1 and 2, then getSegmentationMask for the measurement of view 0
DetectThreeViews ==
    /\ detCalls < MaxDetCalls
    /\ \E r0 \in ViewRuns, r1 \in ViewRuns, r2 \in ViewRuns :
          \E l0 \in {LastResultAfterDetect(lastDetectionResult, g_jvm, jniInitialized,
                                           helperReady, View(0), TRUE, r0)} :
          \E l1 \in {LastResultAfterDetect(l0, g_jvm, jniInitialized, helperReady,
                                           View(1), TRUE, r1)} :
          \E l2 \in {LastResultAfterDetect(l1, g_jvm, jniInitialized, helperReady,
                                           View(2), TRUE, r2)} :
              /\ lastDetectionResult' = l2
              /\ threeViews' =
                    [made |-> TRUE,
                     detected |-> << r0.outcome, r1.outcome, r2.outcome >>,
                     maskOf |-> getSegmentationMask(l2, jniInitialized, View(0)),
                     before |-> lastDetectionResult]
    /\ detCalls' = detCalls + 1
    /\ UNCHANGED <<g_jvm, jniInitialized, helperReady, peCall, notDet>>

IdleDet == InitDet

----------------------------------------------------------------------------
(* Specifications                                                          *)

Init == InitTri /\ IdleGlb /\ IdleMesh /\ IdleM2d /\ IdleCirc /\ IdleEll /\ IdleP3 /\ IdleDet /\ IdleThr /\ IdleEp

NextTri == Triangulate

\* sequences of triangulate calls
SpecTri == Init /\ [][NextTri]_vars

NextGlb == EncodeGLB

StartGlb == InitTri /\ InitGlb /\ IdleMesh /\ IdleM2d /\ IdleCirc /\ IdleEll /\ IdleP3 /\ IdleDet /\ IdleThr /\ IdleEp

\* one createGLBManually call on each input
SpecGlb == StartGlb /\ [][NextGlb]_vars

NextMesh == MeshValidate \/ MeshSegment \/ MeshNormalise \/ MeshEncode

StartMesh == InitTri /\ IdleGlb /\ InitMesh /\ IdleM2d /\ IdleCirc /\ IdleEll /\ IdleP3 /\ IdleDet /\ IdleThr /\ IdleEp

\* one createFromKeypoints call on each skeleton
SpecMesh == StartMesh /\ [][NextMesh]_vars

StartMeshCalls == InitTri /\ IdleGlb /\ InitMeshCalls /\ IdleM2d /\ IdleCirc /\ IdleEll /\ IdleP3 /\ IdleDet /\ IdleThr /\ IdleEp

NextMeshCalls == NextMesh \/ MeshCallAgain

\* any sequence of createFromKeypoints calls
SpecMeshCalls == StartMeshCalls /\ [][NextMeshCalls]_vars

StartM2d == InitTri /\ IdleGlb /\ IdleMesh /\ InitM2d /\ IdleCirc /\ IdleEll /\ IdleP3 /\ IdleDet /\ IdleThr /\ IdleEp

NextM2d == Measure2D

\* one computeMeasurementsFrom2D call on each input
SpecM2d == StartM2d /\ [][NextM2d]_vars

StartCirc == InitTri /\ IdleGlb /\ IdleMesh /\ IdleM2d /\ InitCirc /\ IdleEll /\ IdleP3 /\ IdleDet /\ IdleThr /\ IdleEp

NextCirc == Circumferences

\* one computeCircumferences call on each input
SpecCirc == StartCirc /\ [][NextCirc]_vars

StartEll == InitTri /\ IdleGlb /\ IdleMesh /\ IdleM2d /\ IdleCirc /\ InitEll /\ IdleP3 /\ IdleDet /\ IdleThr /\ IdleEp

NextEll == EllipseCall

\* calculateEllipseCircumference on a pair of semi-axes and on its exchange
SpecEll == StartEll /\ [][NextEll]_vars

StartP3 ==
    InitTri /\ IdleGlb /\ IdleMesh /\ IdleM2d /\ IdleCirc /\ IdleEll /\ InitP3
        /\ IdleDet /\ IdleThr /\ IdleEp

NextP3 == ProcessThreeImages

\* one processThreeImages call on each input
SpecP3 == StartP3 /\ [][NextP3]_vars

StartDet ==
    InitTri /\ IdleGlb /\ IdleMesh /\ IdleM2d /\ IdleCirc /\ IdleEll /\ IdleP3
        /\ InitDet /\ IdleThr /\ IdleEp

NextDet == InitializeDetector \/ ReleaseDetector \/ Detect \/ DetectThreeViews

\* any sequence of detector operations
SpecDet == StartDet /\ [][NextDet]_vars

StartThr ==
    InitTri /\ IdleGlb /\ IdleMesh /\ IdleM2d /\ IdleCirc /\ IdleEll /\ IdleP3
        /\ IdleDet /\ InitThr /\ IdleEp

NextThr ==
    \E t \in Threads : ThreadTest(t) \/ ThreadStore(t) \/ ThreadFlag(t) \/ ThreadApply(t)

\* two triangulate calls running on two threads of a fresh process
SpecThr == StartThr /\ [][NextThr]_vars

StartEp ==
    InitTri /\ IdleGlb /\ IdleMesh /\ IdleM2d /\ IdleCirc /\ IdleEll /\ IdleP3
        /\ IdleDet /\ IdleThr /\ InitEp

NextEp == EnterNative

\* one call of a JNI entry point on each image
SpecEp == StartEp /\ [][NextEp]_vars

Next ==
    NextTri \/ NextGlb \/ NextMeshCalls \/ NextM2d \/ NextCirc \/ NextEll \/ NextP3
        \/ NextDet \/ NextThr \/ NextEp

Spec == Init /\ [][Next]_vars

----------------------------------------------------------------------------
(* Claims about the triangulator (checked under SpecTri)                   *)

IsZero3(p) == p.x = 0 /\ p.y = 0 /\ p.z = 0

\* equality of two points given as numerators over a denominator
SamePoint(p, q) ==
    /\ p.x * q.d = q.x * p.d
    /\ p.y * q.d = q.y * p.d
    /\ p.z * q.d = q.z * p.d

\* C1: a call with a number of views other than 3 returns exactly 135
\* points, each of them (0,0,0), whatever the height and the views hold.
C1_WrongViewCountGivesZeros ==
    (triDone /\ Len(triIn.kpts2d) # 3) =>
        /\ Len(triOut) = 135
        /\ \A i \in 1..Len(triOut) : IsZero3(triOut[i])

\* a call with four full views and a positive height, made after an earlier
\* call has cached a factor other than 1, returned 135 zero points
C1_Witness ==
    /\ triDone
    /\ Len(triIn.kpts2d) = 4
    /\ triIn.userHeight = 170
    /\ scaleComputed /\ scaleFactor # Rat(1, 1)
    /\ Len(triOut) = 135
    /\ \A i \in 1..135 : IsZero3(triOut[i])

\* the call qualifies for a scale of its own: three views, a positive
\* height and a positive Y-extent in the sample of view 0
QualifiesForOwnScale(in) ==
    /\ Len(in.kpts2d) = 3
    /\ in.userHeight > 0
    /\ YExtent(in.kpts2d) > 0

\* C2: every qualifying call scales the points it triangulates by its own
\* referenceHeight / (Y-extent * 200), whatever calls were made before it.
C2_EachCallUsesItsOwnScale ==
    (triDone /\ QualifiesForOwnScale(triIn)) =>
        \A i \in 1..numKeypoints :
            PresentInAllViews(triIn.kpts2d, i - 1) =>
                SamePoint(triOut[i],
                          ScaledPoint(triIn.tri[i],
                                      HeightScale(triIn.kpts2d, triIn.userHeight)))

----------------------------------------------------------------------------
(* Reading a GLB back: what a loader sees                                  *)

\* the unsigned 32-bit little-endian value at byte offset off (0-based)
U32At(b, off) ==
    b[off + 1] + 256 * b[off + 2] + 65536 * b[off + 3] + 16777216 * b[off + 4]

Bytes(b, off, n) == [k \in 1..n |-> b[off + k]]

\* positions (1-based) where key occurs in text
KeyPositions(text, key) ==
    { i \in 1..(Len(text) - Len(key) + 1) : \A k \in 1..Len(key) : text[i + k - 1] = key[k] }

RECURSIVE NthSmallest(_, _)
NthSmallest(S, n) == IF n = 1 THEN SetMin(S) ELSE NthSmallest(S \ {SetMin(S)}, n - 1)

IsDigit(c) == c >= 48 /\ c <= 57

\* the unsigned decimal number starting at position pos, acc read so far
RECURSIVE ParseDecimal(_, _, _)
ParseDecimal(text, pos, acc) ==
    IF pos <= Len(text) /\ IsDigit(text[pos])
    THEN ParseDecimal(text, pos + 1, 10 * acc + (text[pos] - 48))
    ELSE acc

\* the number after the n-th occurrence of key
JsonNumber(text, key, n) ==
    ParseDecimal(text, NthSmallest(KeyPositions(text, key), n) + Len(key), 0)

KeyByteLength == <<34, 98, 121, 116, 101, 76, 101, 110, 103, 116, 104, 34, 58, 32>>
KeyByteOffset == <<34, 98, 121, 116, 101, 79, 102, 102, 115, 101, 116, 34, 58, 32>>
KeyCount == <<34, 99, 111, 117, 110, 116, 34, 58, 32>>

GlbReturned == glbPc = "done" /\ glbOut # <<>>

JsonLen == U32At(glbOut, 12)
JsonChunk == Bytes(glbOut, 20, JsonLen)
BinLen == U32At(glbOut, 20 + JsonLen)
BinChunk == Bytes(glbOut, 28 + JsonLen, BinLen)

\* C5: in a non-empty output the total-length field (bytes 8..11) is the
\* number of bytes returned = 12 + 8 + JSON length + 8 + BIN length; the
\* magic is 'glTF', the version 2, the JSON chunk (tag 'JSON') comes first
\* and the BIN chunk (tag 'BIN\0') second, and each chunk's length field is
\* the number of data bytes after its tag.
C5_HeaderAndChunkLengths ==
    GlbReturned =>
        /\ Len(glbOut) >= 28
        /\ Bytes(glbOut, 0, 4) = <<103, 108, 84, 70>>
        /\ U32At(glbOut, 4) = 2
        /\ U32At(glbOut, 8) = Len(glbOut)
        /\ Bytes(glbOut, 16, 4) = <<74, 83, 79, 78>>
        /\ 28 + JsonLen <= Len(glbOut)
        /\ Bytes(glbOut, 24 + JsonLen, 4) = <<66, 73, 78, 0>>
        /\ Len(glbOut) = 12 + 8 + JsonLen + 8 + BinLen
        /\ JsonChunk = PadWith(JsonString(glbIn.vertices, glbIn.normals, glbIn.indices), 32)
        /\ BinChunk = PadWith(BinaryBuffer(glbIn.vertices, glbIn.normals, glbIn.indices), 0)

\* an output whose JSON text needed padding and whose payload holds
\* vertices, normals and indices
C5_Witness ==
    /\ GlbReturned
    /\ Len(glbIn.vertices) = 6 /\ Len(glbIn.normals) = 3 /\ Len(glbIn.indices) = 3
    /\ Len(JsonString(glbIn.vertices, glbIn.normals, glbIn.indices)) % 4 = 3
    /\ U32At(glbOut, 8) = Len(glbOut)

\* C6: the byteLength of the buffer in the JSON descriptor equals the length
\* field of the BIN chunk (the payload length after padding).
C6_BufferByteLengthIsBinChunkLength ==
    GlbReturned => JsonNumber(JsonChunk, KeyByteLength, 1) = BinLen

C6_Witness ==
    /\ GlbReturned
    /\ Len(glbIn.vertices) = 3 /\ Len(glbIn.normals) = 6 /\ Len(glbIn.indices) = 1
    /\ JsonNumber(JsonChunk, KeyByteLength, 1) = 40
    /\ BinLen = 40

\* C7: the three buffer views tile the payload in the order positions,
\* normals, indices: offsets 0, 4*|positions|, 4*(|positions|+|normals|),
\* byte lengths summing to the buffer byteLength, and the accessor counts
\* are the view lengths divided by 12, 12 and 4.
C7_ViewsTileThePayload ==
    GlbReturned =>
        LET off(n) == JsonNumber(JsonChunk, KeyByteOffset, n)
            len(n) == JsonNumber(JsonChunk, KeyByteLength, n + 1)
            cnt(n) == JsonNumber(JsonChunk, KeyCount, n)
        IN  /\ off(1) = 0
            /\ off(2) = 4 * Len(glbIn.vertices)
            /\ off(3) = 4 * (Len(glbIn.vertices) + Len(glbIn.normals))
            /\ off(2) = off(1) + len(1)
            /\ off(3) = off(2) + len(2)
            /\ len(1) + len(2) + len(3) = JsonNumber(JsonChunk, KeyByteLength, 1)
            /\ cnt(1) * 3 * 4 = len(1)
            /\ cnt(2) * 12 = len(2)
            /\ cnt(3) * 4 = len(3)

C7_Witness ==
    /\ GlbReturned
    /\ Len(glbIn.vertices) = 6 /\ Len(glbIn.normals) = 3 /\ Len(glbIn.indices) = 2
    /\ JsonNumber(JsonChunk, KeyByteOffset, 2) = 24
    /\ JsonNumber(JsonChunk, KeyByteOffset, 3) = 36
    /\ JsonNumber(JsonChunk, KeyCount, 1) = 2
    /\ JsonNumber(JsonChunk, KeyCount, 3) = 2

\* the bytes data extended by n bytes fill, 0 <= n <= 3
PaddedBy(chunk, data, fill) ==
    /\ Len(chunk) - Len(data) \in 0..3
    /\ \A k \in 1..Len(chunk) : chunk[k] = IF k <= Len(data) THEN data[k] ELSE fill

\* C8: both chunk length fields are multiples of 4; the JSON text is
\* extended only with spaces (0x20) and the payload only with zero bytes,
\* each by 0 to 3 bytes.
C8_ChunksAlignedAndPadded ==
    GlbReturned =>
        /\ JsonLen % 4 = 0
        /\ BinLen % 4 = 0
        /\ PaddedBy(JsonChunk, JsonString(glbIn.vertices, glbIn.normals, glbIn.indices), 32)
        /\ PaddedBy(BinChunk, BinaryBuffer(glbIn.vertices, glbIn.normals, glbIn.indices), 0)

\* an output whose JSON text was extended by three spaces
C8_Witness ==
    /\ GlbReturned
    /\ Len(JsonString(glbIn.vertices, glbIn.normals, glbIn.indices)) % 4 = 1
    /\ JsonChunk[JsonLen] = 32 /\ JsonChunk[JsonLen - 2] = 32 /\ JsonChunk[JsonLen - 3] = 10

\* C9: an empty vertex list or an empty index list gives an empty byte
\* vector, whatever the normals hold.
C9_EmptyInputGivesEmptyOutput ==
    (glbPc = "done" /\ (glbIn.vertices = <<>> \/ glbIn.indices = <<>>)) => glbOut = <<>>

\* a call with vertices and normals but no indices returned nothing
C9_Witness ==
    /\ glbPc = "done"
    /\ Len(glbIn.vertices) = 6 /\ Len(glbIn.normals) = 6 /\ glbIn.indices = <<>>
    /\ glbOut = <<>>

----------------------------------------------------------------------------
(* Claims about the mesh builder                                           *)

\* a point as the contract words it: three finite coordinates, not (0,0,0)
FiniteNonZero(pt) ==
    /\ {pt.x, pt.y, pt.z} \cap {NaN, Inf, -Inf} = {}
    /\ <<pt.x, pt.y, pt.z>> # <<0, 0, 0>>

FiniteNonZeroCount(k3) == Cardinality({i \in 1..Len(k3) : FiniteNonZero(k3[i])})

TooFewPoints(k3) == Len(k3) < 15 \/ FiniteNonZeroCount(k3) < 10

AllAnchorsZero(k3) == \A i \in 1..15 : <<k3[i].x, k3[i].y, k3[i].z>> = <<0, 0, 0>>

MeshReturned == meshPc = "done"

\* the JSON chunk of the returned mesh
MeshJson == Bytes(meshOut, 20, U32At(meshOut, 12))

\* the position (1-based) just after the first byte c at or after pos
RECURSIVE SkipPast(_, _, _)
SkipPast(text, pos, c) == IF text[pos] = c THEN pos + 1 ELSE SkipPast(text, pos + 1, c)

\* the signed decimal with six fractional digits at pos, in millionths
ParseFixed(text, pos) ==
    LET neg == text[pos] = 45
        start == IF neg THEN pos + 1 ELSE pos
        whole == ParseDecimal(text, start, 0)
        frac == ParseDecimal(text, SkipPast(text, start, 46), 0)
    IN  (IF neg THEN -1 ELSE 1) * (whole * 1000000 + frac)

KeyMin == <<34, 109, 105, 110, 34, 58, 32, 91>>
KeyMax == <<34, 109, 97, 120, 34, 58, 32, 91>>

\* the second (Y) entry of the position accessor's "min" / "max" array
AccessorY(text, key) ==
    ParseFixed(text, SkipPast(text, SetMin(KeyPositions(text, key)) + Len(key), 44))

\* C3: an input of at least 15 points, at least 10 of them valid, whose
\* anchor slots 0..14 are all the zero vector, yields a non-empty buffer
\* (the placeholder humanoid), never an empty one.
C3_ZeroAnchorsGivePlaceholder ==
    (MeshReturned /\ ~TooFewPoints(kpts3d) /\ AllAnchorsZero(kpts3d))
        => (meshOut # <<>> /\ placeholder)

\* C4: whenever the placeholder humanoid was substituted, the position
\* accessor's max Y minus its min Y in the returned file is exactly 1.5.
C4_PlaceholderIsOneAndAHalfTall ==
    (MeshReturned /\ placeholder)
        => AccessorY(MeshJson, KeyMax) - AccessorY(MeshJson, KeyMin) = 1500000

\* C10: the call returns an empty buffer whenever the input has fewer than
\* 15 points or fewer than 10 valid points, valid meaning finite and not
\* (0,0,0) and counted over every supplied point: an input with enough valid
\* points overall passes the check however few of its anchor slots are valid.
C10_TooFewPointsGivesEmpty ==
    /\ (MeshReturned /\ TooFewPoints(kpts3d)) => meshOut = <<>>
    /\ (meshPc \notin {"idle", "call"}) => ((segment = 0) <=> TooFewPoints(kpts3d))

\* a 25-point input with 9 valid points, the others non-finite, was rejected
C10_Witness ==
    /\ MeshReturned
    /\ Len(kpts3d) >= 15
    /\ FiniteNonZeroCount(kpts3d) = 9
    /\ \E i \in 1..Len(kpts3d) : kpts3d[i].y = -Inf
    /\ meshOut = <<>>

\* C11: in any sequence of calls, a call whose input equals that of an
\* earlier call returns the same bytes, whatever was processed in between.
C11_SameInputSameBytes ==
    MeshReturned => \A e \in meshLog : e.in = kpts3d => e.out = meshOut

\* a non-empty mesh was returned again after calls on two other skeletons
C11_Witness ==
    /\ MeshReturned
    /\ meshOut # <<>>
    /\ Cardinality(meshLog) = 3
    /\ \E e \in meshLog : e.in = kpts3d /\ e.out = meshOut

----------------------------------------------------------------------------
(* More claims about the triangulator (checked under SpecTri)              *)

\* index i (0-based) is beyond the end of one of the three views
MissingFromAView(in, i) == \E view \in 1..3 : i >= Len(in.kpts2d[view])

\* p is the point h/h.w times the factor in force, Y negated ((0,0,0) when
\* the fourth component is 0)
IsComputedFrom(p, h, sf) ==
    IF h.w = 0 THEN IsZero3(p)
    ELSE /\ p.x * h.w * sf.den = h.x * sf.num * p.d
         /\ p.y * h.w * sf.den = -(h.y * sf.num * p.d)
         /\ p.z * h.w * sf.den = h.z * sf.num * p.d

\* C12: every call returns exactly 135 points; with three views, the point
\* of an index missing from some view is (0,0,0) and the point of an index
\* present in all three is the triangulated, scaled one.
C12_AlwaysAllPointsMissingOnesZero ==
    triDone =>
        /\ Len(triOut) = 135
        /\ Len(triIn.kpts2d) = 3 =>
             \A i \in 0..134 :
                IF MissingFromAView(triIn, i)
                THEN IsZero3(triOut[i + 1])
                ELSE IsComputedFrom(triOut[i + 1], triIn.tri[i + 1], scaleFactor)

\* a call whose left view holds 3 points: indices 0..2 computed and not
\* zero, index 3 and every later one zero
C12_Witness ==
    /\ triDone
    /\ Len(triIn.kpts2d) = 3
    /\ Len(triIn.kpts2d[1]) = 135 /\ Len(triIn.kpts2d[2]) = 3 /\ Len(triIn.kpts2d[3]) = 135
    /\ \A i \in 1..3 : ~IsZero3(triOut[i])
    /\ \A i \in 4..135 : IsZero3(triOut[i])

----------------------------------------------------------------------------
(* Claims about computeMeasurementsFrom2D (checked under SpecM2d)          *)

Measured == m2dPc = "done"

AllSlotsZero == \A i \in 1..Len(m2dOut) : m2dOut[i].den # 0 /\ m2dOut[i].num = 0

\* a keypoint inside the normalized range
InRange2D(pt) == 0 <= pt.x /\ pt.x <= 1000 /\ 0 <= pt.y /\ pt.y <= 1000

InRangeCount(k2) == Cardinality({i \in 1..Len(k2) : InRange2D(k2[i])})

\* the reference height or an image dimension is out of bounds
BadHeightOrSize(in) ==
    \/ (in.userHeight # NaN /\ (in.userHeight <= 0 \/ in.userHeight > 300))
    \/ in.imgWidth <= 0
    \/ in.imgHeight <= 0

\* C13 as stated: all eight slots are 0 whenever fewer than 33 of the
\* supplied keypoints are valid, or the reference height is <= 0 or > 300,
\* or the image width or height is <= 0.
C13_FewValidPointsGivesZeros ==
    (Measured /\ (InRangeCount(m2dIn.kpts2d) < 33 \/ BadHeightOrSize(m2dIn)))
        => AllSlotsZero

\* C13 amended: all eight slots are 0 whenever fewer than 33 keypoints are
\* supplied (valid or not), or the reference height is <= 0 or > 300, or
\* the image width or height is <= 0.
C13_FewPointsGivesZeros ==
    (Measured /\ (Len(m2dIn.kpts2d) < 33 \/ BadHeightOrSize(m2dIn)))
        => (Len(m2dOut) = 8 /\ AllSlotsZero)

\* 32 in-range keypoints with a good height and image size gave eight zeros
C13_Witness ==
    /\ Measured
    /\ Len(m2dIn.kpts2d) = 32 /\ InRangeCount(m2dIn.kpts2d) = 32
    /\ ~BadHeightOrSize(m2dIn) /\ m2dIn.userHeight = 170
    /\ Len(m2dOut) = 8 /\ AllSlotsZero

\* plausibility range of each slot, in centimetres
SlotRange ==
    << <<30, 60>>, <<50, 80>>, <<70, 120>>, <<25, 50>>,
       <<40, 80>>, <<60, 100>>, <<8, 15>>, <<15, 40>> >>

\* v is a finite value of [lo, hi], bounds included
FiniteWithin(v, lo, hi) == v.den > 0 /\ lo * v.den <= v.num /\ v.num <= hi * v.den

IsZeroCm(v) == v.den # 0 /\ v.num = 0

\* C14: every call returns exactly 8 values, each of them 0 or a finite
\* value inside its slot's range, bounds included; never a NaN, an infinity
\* or an out-of-range value.
C14_EightSlotsZeroOrPlausible ==
    Measured =>
        /\ Len(m2dOut) = 8
        /\ \A i \in 1..8 :
              IsZeroCm(m2dOut[i]) \/ FiniteWithin(m2dOut[i], SlotRange[i][1], SlotRange[i][2])

\* with a mask: shoulder, arm and thigh slots hold values, the upper-body
\* slot was zeroed although both hips were detected
C14_Witness ==
    /\ Measured
    /\ m2dIn.mask.cols = m2dIn.imgWidth /\ m2dIn.imgWidth > 0
    /\ ~IsZeroCm(m2dOut[1]) /\ ~IsZeroCm(m2dOut[2]) /\ ~IsZeroCm(m2dOut[8])
    /\ InRange2D(m2dIn.kpts2d[24]) /\ InRange2D(m2dIn.kpts2d[25])
    /\ IsZeroCm(m2dOut[5])

\* the input is accepted, the nose is in range and so is some foot slot
HasNoseAndFeet(in) ==
    /\ Len(in.kpts2d) >= 33
    /\ in.userHeight # NaN /\ in.userHeight > 0 /\ in.userHeight <= 300
    /\ in.imgWidth > 0 /\ in.imgHeight > 0
    /\ InRange2D(in.kpts2d[1])
    /\ \E s \in 28..33 : InRange2D(in.kpts2d[s])

\* largest Y among the in-range slots 27..32, minus the nose Y
VerticalExtent(in) ==
    SetMax({in.kpts2d[s].y : s \in {s \in 28..33 : InRange2D(in.kpts2d[s])}})
        - in.kpts2d[1].y

\* v = distance(slot 11, slot 12) * imgWidth * referenceHeight
\*       / (vertical extent * imgHeight), both in lowest terms
IsShoulderWidth(v, in) ==
    Rat(v.num, v.den)
        = Rat(keypointDistance(in.kpts2d[12], in.kpts2d[13]) * in.imgWidth * in.userHeight,
              VerticalExtent(in) * in.imgHeight)

\* that value lies in [lo, hi]
ShoulderWithin(in, lo, hi) ==
    LET n == keypointDistance(in.kpts2d[12], in.kpts2d[13]) * in.imgWidth * in.userHeight
        d == VerticalExtent(in) * in.imgHeight
    IN  lo * d <= n /\ n <= hi * d

\* the worked example: nose y 0.1, feet y 0.9, 640 x 1000, height 170,
\* shoulders 0.2 apart
IsWorkedExample(in) ==
    /\ HasNoseAndFeet(in)
    /\ in.kpts2d[1].y = 100 /\ VerticalExtent(in) = 800
    /\ in.imgWidth = 640 /\ in.imgHeight = 1000 /\ in.userHeight = 170
    /\ InRange2D(in.kpts2d[12]) /\ InRange2D(in.kpts2d[13])
    /\ keypointDistance(in.kpts2d[12], in.kpts2d[13]) = 200

WithoutOriginPoints(in) ==
    [in EXCEPT !.kpts2d = [i \in 1..Len(in.kpts2d) |->
        IF in.kpts2d[i].x = 0 /\ in.kpts2d[i].y = 0 THEN Pt2(-1000, -1000)
        ELSE in.kpts2d[i]]]

\* C16: a keypoint at (0,0) is treated as undetected: the result is the one
\* the same input gives with those keypoints missing.
C16_OriginIsUndetected ==
    Measured => m2dOut = computeMeasurementsFrom2D(WithoutOriginPoints(m2dIn))

----------------------------------------------------------------------------
(* Claims about computeCircumferences (checked under SpecCirc)             *)

CircDone == circPc = "done"

\* the call is refused as a whole: fewer than 10 points, or no positive
\* vertical extent
NoVerticalExtent(pts) ==
    \A i \in 1..Len(pts) : \A j \in 1..Len(pts) : pts[j].y - pts[i].y <= 0

RefusedCloud == Len(circIn.kpts3d) < 10 \/ NoVerticalExtent(circIn.kpts3d)

LowestY == CHOOSE y \in {circIn.kpts3d[i].y : i \in 1..Len(circIn.kpts3d)} :
               \A i \in 1..Len(circIn.kpts3d) : y <= circIn.kpts3d[i].y
HighestYOfCloud == CHOOSE y \in {circIn.kpts3d[i].y : i \in 1..Len(circIn.kpts3d)} :
               \A i \in 1..Len(circIn.kpts3d) : y >= circIn.kpts3d[i].y

\* the regions in the order of the returned values: waist, chest, hips,
\* left thigh, right thigh, left arm, right arm; each with its level in
\* percent of the height and its side of the body
RegionPercent == <<50, 25, 60, 70, 70, 30, 30>>
RegionSide == <<"any", "any", "any", "left", "right", "left", "right">>

\* number of points of the cloud in region r: within 5% of the height
\* around the region's level, and on the region's side
PointsInRegion(r) ==
    Cardinality({ i \in 1..Len(circIn.kpts3d) :
        /\ 100 * Abs(circIn.kpts3d[i].y - LowestY) - RegionPercent[r] * (HighestYOfCloud - LowestY)
              < 5 * (HighestYOfCloud - LowestY)
        /\ RegionPercent[r] * (HighestYOfCloud - LowestY) - 100 * Abs(circIn.kpts3d[i].y - LowestY)
              < 5 * (HighestYOfCloud - LowestY)
        /\ (RegionSide[r] = "left" => circIn.kpts3d[i].x < 0)
        /\ (RegionSide[r] = "right" => circIn.kpts3d[i].x > 0) })

\* C17: computeCircumferences always returns exactly 7 values, in the
\* order waist, chest, hips, left thigh, right thigh, left arm, right arm
\* (with a fit that gives a proper ellipse, a slot is non-zero exactly when
\* its own region holds at least 5 points); the 7 values are all zero when
\* fewer than 10 points are passed or the vertical extent is not positive.
C17_SevenValuesInOrder ==
    CircDone =>
        /\ Len(circOut) = 7
        /\ RefusedCloud => \A r \in 1..7 : circOut[r] = 0
        /\ (~RefusedCloud /\ circIn.fit = "box") =>
              \A r \in 1..7 : (circOut[r] # 0) <=> (PointsInRegion(r) >= 5)

C17_Witness ==
    /\ CircDone
    /\ ~RefusedCloud
    /\ circIn.fit = "box"
    /\ circOut[1] > 0 /\ circOut[2] = 0 /\ circOut[4] = 0 /\ circOut[5] > 0
    /\ circOut[6] > 0 /\ circOut[7] = 0

\* the cloud with region r filled: five more points at the region's level
\* and on its side
Populated(r) ==
    [circIn EXCEPT !.kpts3d = @ \o
        [i \in 1..5 |->
            Pt((IF RegionSide[r] = "right" \/ (RegionSide[r] = "any" /\ i % 2 = 0)
                   THEN 1 ELSE -1) * (i * 1300),
               LowestY + (RegionPercent[r] * (HighestYOfCloud - LowestY)) \div 100,
               i * 900)]]

\* a region with fewer than 5 points gives 0 in its own slot, without a
\* fit, and leaves every other slot as it is with the region filled
SparseRegionIsolated(r) ==
    /\ circOut[r] = 0
    /\ r \notin circFits
    /\ \A j \in (1..7) \ {r} : circOut[j] = computeCircumferences(Populated(r))[j]

----------------------------------------------------------------------------
(* Claims about calculateEllipseCircumference (checked under SpecEll)      *)

\* C19: calculateEllipseCircumference is symmetric in its semi-axes: the
\* calls on (a, b) and on (b, a) return the same value whenever a + b > 0.
C19_CircumferenceSymmetric ==
    \A c \in ellLog : \A d \in ellLog :
        (c.a = d.b /\ c.b = d.a /\ c.a + c.b > 0) => c.result = d.result

C19_Witness ==
    \E c \in ellLog : \E d \in ellLog :
        /\ c.a = d.b /\ c.b = d.a /\ c.a > c.b /\ c.b > 0
        /\ c.result = d.result
        /\ c.result > Mul(2 * Pi, c.b) /\ c.result < Mul(2 * Pi, c.a)

----------------------------------------------------------------------------
(* Claims about processThreeImages (checked under SpecP3)                  *)

P3Done == p3Pc = "done"

\* C20: processThreeImages returns a measurement array of exactly 8 values
\* on every return path: null arrays, an image count other than 3, a null
\* image and an image byte array shorter than width x height x 4 included
\* (stated for the calls that return a ScanResult at all).
C20_AlwaysEightMeasurements ==
    (P3Done /\ p3Out.object) => Len(p3Out.measurements) = 8

----------------------------------------------------------------------------
(* More claims about computeMeasurementsFrom2D (checked under SpecM2d)     *)

\* a thigh has a width: its hip and its knee are in range (slots 0-based)
SideHasWidth(in, hip, knee) == InRange2D(in.kpts2d[hip + 1]) /\ InRange2D(in.kpts2d[knee + 1])

\* twice the centerline x: the hip midpoint, or 0.5 without both hips
TwiceCenterline(in) ==
    IF InRange2D(in.kpts2d[24]) /\ InRange2D(in.kpts2d[25])
    THEN in.kpts2d[24].x + in.kpts2d[25].x
    ELSE 1000

\* the width of one thigh in 1/2000 of a pixel: the scanned span when the
\* scan of an aligned mask succeeds, else 2 * |hipX - centerlineX| * 1.5 *
\* imgWidth
SideWidth(in, hip, knee) ==
    IF ThighScan(in, hip, knee).found
    THEN 2000 * ThighScan(in, hip, knee).width
    ELSE 3 * Abs(2 * in.kpts2d[hip + 1].x - TwiceCenterline(in)) * in.imgWidth

\* four times the mean of the sides that have a width, in 1/2000 of a pixel
FourTimesMeanWidth(in) ==
    IF SideHasWidth(in, 23, 25) /\ SideHasWidth(in, 24, 26)
    THEN 2 * (SideWidth(in, 23, 25) + SideWidth(in, 24, 26))
    ELSE IF SideHasWidth(in, 23, 25) THEN 4 * SideWidth(in, 23, 25)
    ELSE IF SideHasWidth(in, 24, 26) THEN 4 * SideWidth(in, 24, 26)
    ELSE 0

\* the thigh width in centimetres as the fraction n / d:
\* mean width * referenceHeight / (vertical extent * imgHeight)
ThighCmNum(in) == (FourTimesMeanWidth(in) \div 4) * in.userHeight
ThighCmDen(in) == 2 * VerticalExtent(in) * in.imgHeight

\* C21: a side has a width iff its hip and knee are valid (the scanned
\* span, or the estimate 2 * |hipX - centerlineX| * 1.5 * imgWidth); the
\* thigh slot is the clamp to [15, 40] of the mean of both sides' widths
\* times cm-per-pixel when both have one, of the single side's width when
\* one has, and 0 when neither has.
C21_ThighSlotIsClampedMean ==
    (Measured /\ HasNoseAndFeet(m2dIn) /\ VerticalExtent(m2dIn) > 0) =>
        IF (SideHasWidth(m2dIn, 23, 25) \/ SideHasWidth(m2dIn, 24, 26))
           /\ 15 * ThighCmDen(m2dIn) <= ThighCmNum(m2dIn)
           /\ ThighCmNum(m2dIn) <= 40 * ThighCmDen(m2dIn)
        THEN Rat(m2dOut[8].num, m2dOut[8].den) = Rat(ThighCmNum(m2dIn), ThighCmDen(m2dIn))
        ELSE IsZeroCm(m2dOut[8])

\* only the right thigh has a width, estimated from the hips, and the slot
\* holds it
C21_Witness ==
    /\ Measured /\ HasNoseAndFeet(m2dIn) /\ VerticalExtent(m2dIn) > 0
    /\ ~SideHasWidth(m2dIn, 23, 25) /\ SideHasWidth(m2dIn, 24, 26)
    /\ ~ThighScan(m2dIn, 24, 26).found
    /\ ~IsZeroCm(m2dOut[8])
    /\ Rat(m2dOut[8].num, m2dOut[8].den) = Rat(ThighCmNum(m2dIn), ThighCmDen(m2dIn))

\* the mask is aligned to the image
AlignedMask(in) ==
    in.imgWidth > 0 /\ in.imgHeight > 0
    /\ in.mask.cols = in.imgWidth /\ in.mask.rows = in.imgHeight

\* the mask value at column x is > 0.5
Silhouette(in, x) == \E run \in in.mask.runs : run[1] <= x /\ x <= run[2]

\* pixel column of a normalized x, and of the body centerline (the middle
\* of the two hips)
ColumnOf(in, x1000) == (x1000 * in.imgWidth) \div 1000
CenterColumn(in) == ((in.kpts2d[24].x + in.kpts2d[25].x) * in.imgWidth) \div 2000

\* the outer edge of the thigh of a hip: the first silhouette column met
\* from the image border of the hip's side toward the centerline, not
\* past it (-1: none)
OuterEdge(in, hip) ==
    LET c == CenterColumn(in)
        cols == { x \in 0..(in.imgWidth - 1) : Silhouette(in, x) }
    IN  IF ColumnOf(in, in.kpts2d[hip + 1].x) <= c
        THEN (IF { x \in cols : x <= c } = {} THEN -1
              ELSE CHOOSE x \in cols : x <= c /\ \A z \in cols : z >= x)
        ELSE (IF { x \in cols : x >= c } = {} THEN -1
              ELSE CHOOSE x \in cols : x >= c /\ \A z \in cols : z <= x)

\* the inner edge: the first silhouette column met from the centerline
\* toward the hip (-1: none)
InnerEdge(in, hip) ==
    LET c == CenterColumn(in)
        h == ColumnOf(in, in.kpts2d[hip + 1].x)
        between == { x \in 0..(in.imgWidth - 1) :
                        Silhouette(in, x) /\ ((h <= x /\ x <= c) \/ (c <= x /\ x <= h)) }
    IN  IF between = {} THEN -1
        ELSE IF h <= c THEN CHOOSE x \in between : \A z \in between : z <= x
        ELSE CHOOSE x \in between : \A z \in between : z >= x

\* the scan of a side found the two edges and took the span between them,
\* or found no such pair and gave no width
ScanMatchesEdges(in, scan, hip) ==
    LET outer == OuterEdge(in, hip)
        inner == InnerEdge(in, hip)
    IN  IF outer >= 0 /\ inner >= 0 /\ outer # inner
        THEN /\ scan.found
             /\ {scan.leftEdge, scan.rightEdge} = {outer, inner}
             /\ scan.width = Abs(inner - outer)
        ELSE ~scan.found

ReadsInsideMask(in, scan) ==
    \A r \in scan.reads :
        r[1] >= 0 /\ r[1] < in.mask.rows /\ r[2] >= 0 /\ r[3] < in.mask.cols

\* C28: with a mask aligned to the image, for each thigh the outer edge is
\* the first silhouette pixel of the thigh-midpoint row met from that
\* side's image border toward the centerline, not past it, the inner edge
\* the first one met from the centerline toward the hip, and the width the
\* span between them, on whichever side of the centerline the hip lies;
\* every mask read is inside the mask.
C28_ThighEdgesFromBorderAndCenterline ==
    (Measured /\ AlignedMask(m2dIn) /\ Len(m2dIn.kpts2d) >= 33
        /\ InRange2D(m2dIn.kpts2d[24]) /\ InRange2D(m2dIn.kpts2d[25])) =>
        /\ m2dScan.left.scanned =>
              /\ ScanMatchesEdges(m2dIn, m2dScan.left, 23)
              /\ ReadsInsideMask(m2dIn, m2dScan.left)
        /\ m2dScan.right.scanned =>
              /\ ScanMatchesEdges(m2dIn, m2dScan.right, 24)
              /\ ReadsInsideMask(m2dIn, m2dScan.right)

----------------------------------------------------------------------------
(* Claims about the pose detector (checked under SpecDet)                  *)

AllZeroKeypoints(k2) == \A i \in 1..Len(k2) : k2[i].x = 0 /\ k2[i].y = 0

\* C22: PoseEstimator::detect returns exactly 135 keypoints on every call,
\* and in any sequence of calls 135 all-zero keypoints for a call made
\* while no JVM is stored, the JNI ids are not initialised or the helper is
\* not ready, for an empty image, and whenever the detector does not
\* deliver exactly 33 landmarks.
C22_DetectGives135ZeroUntilReady ==
    peCall.made =>
        /\ Len(peCall.keypoints) = 135
        /\ (~peCall.jvm \/ ~peCall.jni \/ ~peCall.ready \/ peCall.img.empty
              \/ peCall.outcome # "landmarks") => AllZeroKeypoints(peCall.keypoints)

\* a call after a release: JVM stored, ids initialised, helper not ready,
\* landmarks on offer, and the result is 135 zeros
C22_Witness ==
    /\ peCall.made
    /\ peCall.jvm /\ peCall.jni /\ ~peCall.ready
    /\ ~peCall.img.empty /\ peCall.attached /\ peCall.outcome = "landmarks"
    /\ Len(peCall.keypoints) = 135
    /\ AllZeroKeypoints(peCall.keypoints)

\* C29: in processThreeImages the mask handed to the measurement of view 0
\* is the mask of the detection that ran on view 0, not of a detection
\* that ran later on another view.
C29_MaskIsOfViewZero ==
    (threeViews.made /\ threeViews.maskOf # 0) => threeViews.maskOf = View(0).id

----------------------------------------------------------------------------
(* More claims about the mesh builder (checked under SpecMesh)             *)

VertexCountOf(buf) == Len(buf.vertices) \div 3

BuffersConsistent(buf) ==
    /\ Len(buf.vertices) = 3 * buf.indexOffset
    /\ Len(buf.normals) = Len(buf.vertices)
    /\ Len(buf.indices) % 3 = 0
    /\ \A q \in 1..Len(buf.indices) :
          buf.indices[q] >= 0 /\ buf.indices[q] < VertexCountOf(buf)

\* C23: at every point of createFromKeypoints (after an ellipsoid, a
\* cylinder, a skipped segment, the placeholder rebuild, and at encoding)
\* the running index offset equals the number of vertices in the buffer,
\* the normal buffer is as long as the vertex buffer, the index count is a
\* multiple of 3 and every index is smaller than the vertex count.
C23_BuffersStayConsistent == BuffersConsistent(allBuffers)

\* the head was skipped, and ellipsoids and cylinders were appended after it
C23_Witness ==
    /\ meshPc = "finish"
    /\ ~isValidKeypoint(kpts3d[1])
    /\ allBuffers.indexOffset > EllipsoidVertexCount + CylinderVertexCount
    /\ allBuffers.indexOffset % EllipsoidVertexCount # 0
    /\ allBuffers.indexOffset % CylinderVertexCount # 0

\* the mesh is about to be encoded, or was encoded and returned
MeshNormalised == meshPc = "encode" \/ (meshPc = "done" /\ meshOut # <<>>)

\* the rounding left by the fixed-point centre and scale on min + max
CentringSlack == scale \div FP + 2

CentredOnAxis(axis) ==
    Abs(BoxMin(allBuffers.vertices, axis) + BoxMax(allBuffers.vertices, axis))
        <= CentringSlack

\* C24: for every input that createFromKeypoints does not reject, the
\* bounding box of the encoded vertex positions is centred on the origin on
\* each axis (min = -max), for recentred real geometry and for the
\* placeholder humanoid alike.
C24_EncodedBoxIsCentred ==
    MeshNormalised => \A axis \in 1..3 : CentredOnAxis(axis)

\* the same for real geometry only: holds
RealGeometryIsCentred ==
    (MeshNormalised /\ ~placeholder) => \A axis \in 1..3 : CentredOnAxis(axis)

RealGeometryEncoded == MeshNormalised /\ ~placeholder /\ scale # FP

\* the branch and the factor in terms of the largest extent E (in 1/FP)
ScaleChoiceAsStated(E, substituted, factor) ==
    /\ (E < 1) => (substituted /\ factor = FP)
    /\ (E > 100 * FP) => (~substituted /\ factor = FP \div 100)
    /\ (E >= 1 /\ E < FP) => (~substituted /\ factor = Div(1500, E))
    /\ (E >= FP /\ E <= 100 * FP) => (~substituted /\ factor = FP)

\* the normalising step of a call that generated geometry
Normalising == meshPc = "finish" /\ meshPc' = "encode"

\* C25: with E the largest bounding-box extent of the generated geometry,
\* createFromKeypoints substitutes the placeholder (scale 1) if E < 0.001,
\* scales by 0.01 if E > 100, by 1.5 / E if 0.001 <= E < 1 and by 1 if
\* 1 <= E <= 100 (E = 1 and E = 100 are left unscaled), and an undersized
\* model ends with largest extent 1.5.
C25_UnitScaleByExtent ==
    [][Normalising =>
          /\ ScaleChoiceAsStated(MaxSizeOf(allBuffers.vertices), placeholder', scale')
          /\ (MaxSizeOf(allBuffers.vertices) >= 1 /\ MaxSizeOf(allBuffers.vertices) < FP)
                => Abs(MaxSizeOf(allBuffers'.vertices) - 1500) <= 2]_vars

\* a model of extent exactly 1 was left unscaled
C25_Witness ==
    /\ meshPc = "encode"
    /\ ~placeholder
    /\ maxSize = FP
    /\ scale = FP
    /\ MaxSizeOf(allBuffers.vertices) = FP

\* further cases of C25 that were reached
ExtentHundredUnscaled == meshPc = "encode" /\ maxSize = 100 * FP /\ scale = FP
UndersizedRescaled == meshPc = "encode" /\ maxSize < FP /\ scale > FP /\ ~placeholder
OversizedRescaled == meshPc = "encode" /\ maxSize > 100 * FP /\ scale = 10

\* a block of createFromKeypoints appended a cylinder to the buffers
AppendedCylinder ==
    /\ meshPc = "build"
    /\ segment \in {2} \cup (5..12)
    /\ allBuffers' # allBuffers

\* the triangles (0-based) of buf that were not in the buffers before
TrianglesSince(before, buf) ==
    { t \in 0..(Len(buf.indices) \div 3 - 1) : t >= Len(before.indices) \div 3 }

TriangleVertices(buf, t) == { buf.indices[3 * t + m] : m \in 1..3 }

\* the vertex numbers of end ring 0 (start) or 1 (end) of the cylinder
\* appended at offset
RingVertices(offset, ring) ==
    { offset + ring * (Segments + 1) + i : i \in 0..Segments }

\* a face closing end ring `ring`: it lies on that ring and has no vertex
\* on the other one
ClosesRing(buf, t, offset, ring) ==
    /\ Cardinality(TriangleVertices(buf, t) \cap RingVertices(offset, ring)) >= 2
    /\ TriangleVertices(buf, t) \cap RingVertices(offset, 1 - ring) = {}

\* C26: every limb segment generated by generateCylinderBetweenPoints is a
\* capped, closed cylinder: besides the quad strip around its side, its
\* triangle list contains faces that close both end rings.
C26_CylindersAreCapped ==
    [][AppendedCylinder =>
          \A ring \in 0..1 :
             \E t \in TrianglesSince(allBuffers, allBuffers') :
                ClosesRing(allBuffers', t, allBuffers.indexOffset, ring)]_vars

\* what the code emits: every triangle of a cylinder spans both rings
CylindersAreSideStripsOnly ==
    [][AppendedCylinder =>
          /\ Cardinality(TrianglesSince(allBuffers, allBuffers')) = 2 * Segments
          /\ \A t \in TrianglesSince(allBuffers, allBuffers') : \A ring \in 0..1 :
                TriangleVertices(allBuffers', t)
                    \cap RingVertices(allBuffers.indexOffset, ring) # {}]_vars

----------------------------------------------------------------------------
(* Claims about concurrent triangulate calls (checked under SpecThr)       *)

OneFactor(applied) == \A p, q \in 1..Len(applied) : applied[p] = applied[q]

\* thread t is about to write scaleFactor while thread u is about to read
\* or write it, and nothing orders the two accesses
FactorRace ==
    \E t, u \in Threads :
        /\ t # u
        /\ thrPc[t] = "store" /\ ThreadWrites(t)
        /\ thrPc[u] \in {"apply", "store"}

\* C27: when two triangulate calls with different reference heights or
\* keypoints run concurrently on different threads, each call applies one
\* single scale factor to all the points it returns, and no call reads the
\* cached factor while another call is writing it.
C27_ConcurrentCallsKeepOneFactor ==
    (thrArgs[1] # thrArgs[2]) =>
        /\ \A t \in Threads : OneFactor(thrApplied[t])
        /\ ~FactorRace

\* a call that returned points scaled by two different factors
MixedFactors ==
    \E t \in Threads :
        /\ thrPc[t] = "done"
        /\ Len(thrApplied[t]) = RacePoints
        /\ ~OneFactor(thrApplied[t])

----------------------------------------------------------------------------
(* Claims about the JNI entry points (checked under SpecEp)                *)

\* the array holds fewer than width * height * 4 bytes (the true product)
TooShort(len, width, height) ==
    /\ width > 0
    /\ height > 0
    /\ (len \div 4) \div width < height

\* C30: no JNI entry point builds a width x height RGBA matrix over a byte
\* array holding fewer than width * height * 4 bytes: for every 32-bit
\* width and height, products that wrap around included, and every array
\* length, too short an array is refused before any pixel is read.
C30_ShortArrayIsRefused ==
    (epPc = "done" /\ TooShort(epIn.len, epIn.width, epIn.height)) => ~epOut.built

\* what holds: processOneImage and processThreeImages refuse too short an
\* array whenever width * height * 4 fits 32 bits
ExactTestRefusesWithoutOverflow ==
    (/\ epPc = "done"
     /\ epIn.entry \in {"processOneImage", "processThreeImages"}
     /\ ~Overflows(epIn.width, epIn.height)
     /\ TooShort(epIn.len, epIn.width, epIn.height)) => ~epOut.built

\* a matrix was built over a wrapped size
BuiltOnWrappedSize ==
    /\ epPc = "done"
    /\ epIn.entry = "processOneImage"
    /\ Overflows(epIn.width, epIn.height)
    /\ epIn.len = 0
    /\ epOut.built

====
